---------------------------- MODULE Spec2Model ----------------------------
(***************************************************************************)
(* Model of the in-memory cache engine (class Node and class CacheService  *)
(* of src/src/utils/logger.js): a key index (Map), a doubly linked recency *)
(* list, a byte budget with LRU eviction, TTL expiry and six counters.     *)
(*                                                                         *)
(* Every method of the class is an operator that maps a state record to    *)
(* the state record the method leaves; a public call is one action, which  *)
(* commits the record the method returns (JavaScript runs each call to     *)
(* completion).                                                            *)
(*                                                                         *)
(* Around the cache the module models the callers that share it: the       *)
(* geolocation service, the GeoIP lookup cache, the route cache in front   *)
(* of GET /api/geolocation/detect, and the auth service (authenticate and  *)
(* refreshToken), whose async functions are split at their awaits.         *)
(***************************************************************************)
EXTENDS Integers, Sequences, FiniteSets, Bags, TLC

VARIABLES
    nodes,             \* the Node objects, by key: the last Node made for the key
    cache,             \* this.cache: the keys of the Map, in insertion order
    head,              \* this.head
    tail,              \* this.tail
    currentSize,       \* this.currentSize
    maxSize,           \* this.maxSize
    defaultTTL,        \* this.defaultTTL
    stats,             \* this.stats
    evictionCallback,  \* this.evictionCallback
    pruneIntervalId,   \* this.pruneIntervalId: TRUE while the interval is armed
    now,               \* Date.now()
    exited,            \* the process has ended: nothing runs any more
    inflight,          \* the calls of the geolocation service that await an answer
    geoipCache,        \* the Map of the GeoIP service: the timestamps of its entries
    user,              \* the account's document in the users collection
    tokens,            \* the tokens collection: the refresh tokens' documents, by token
    logins,            \* the calls of authenticate that await an answer
    refreshes,         \* the calls of refreshToken that await an answer
    authLog,           \* history: calls started, failed password checks, refreshes done
    lru,               \* history: live keys, most recently set or read first
    call,              \* history: the last public call, its arguments and result
    nOps               \* history: number of public calls made

vars == <<nodes, cache, head, tail, currentSize, maxSize, defaultTTL, stats,
          evictionCallback, pruneIntervalId, now, exited, inflight, geoipCache,
          user, tokens, logins, refreshes, authLog, lru, call, nOps>>

\* the state of the other modules of the application
authVars == <<user, tokens, logins, refreshes, authLog>>

appVars == <<geoipCache, authVars>>

-----------------------------------------------------------------------------
(* Bounds of the model *)

MaxOps == 3
MaxTime == 2

(* Program constants *)

DefaultMaxSize == 104857600
DefaultTTL == 3600000

Keys == {"a", "b", "c"}
Null == "null"
Omitted == -1

-----------------------------------------------------------------------------
(* JavaScript values, as far as _calculateSize looks at them:              *)
(* t is the type, n the length of a string, items the elements of an array *)
(* or the property values of an object, klens the property name lengths.   *)

Val(t, n, items, klens) == [t |-> t, n |-> n, items |-> items, klens |-> klens]

VNull == Val("null", 0, <<>>, <<>>)
VUndefined == Val("undefined", 0, <<>>, <<>>)
VTrue == Val("boolean", 1, <<>>, <<>>)
VStr(n) == Val("string", n, <<>>, <<>>)
VArr(items) == Val("array", 0, items, <<>>)
VObj(klens, items) == Val("object", 0, items, klens)
\* an object that refers to itself: the walk of _calculateSize never ends and
\* the engine raises RangeError (stack overflow)
VCyclic == Val("cyclic", 0, <<>>, <<>>)

RECURSIVE calculateSize(_), sumSizes(_, _, _)
\* Node._calculateSize: [ok |-> FALSE] when the walk throws
calculateSize(value) ==
    CASE value.t \in {"null", "undefined"} -> [ok |-> TRUE, size |-> 0]
      [] value.t = "boolean" -> [ok |-> TRUE, size |-> 4]
      [] value.t = "number" -> [ok |-> TRUE, size |-> 8]
      [] value.t = "string" -> [ok |-> TRUE, size |-> value.n * 2]
      [] value.t = "date" -> [ok |-> TRUE, size |-> 8]
      [] value.t \in {"array", "object"} -> sumSizes(value, 1, 0)
      [] value.t = "cyclic" -> [ok |-> FALSE, size |-> 0]
      [] OTHER -> [ok |-> TRUE, size |-> 8]

\* the reduce over the elements of an array or the properties of an object
sumSizes(value, i, size) ==
    IF i > Len(value.items) THEN [ok |-> TRUE, size |-> size]
    ELSE LET r == calculateSize(value.items[i])
             k == IF value.t = "object" THEN value.klens[i] * 2 ELSE 0
         IN  IF r.ok THEN sumSizes(value, i + 1, size + k + r.size)
             ELSE [ok |-> FALSE, size |-> 0]

\* Node.constructor, for a value whose size can be computed
NewNode(key, value, ttl, t) ==
    [key |-> key, value |-> value, ttl |-> ttl,
     expiry |-> IF ttl > 0 THEN t + ttl ELSE 0,
     next |-> Null, prev |-> Null,
     size |-> calculateSize(value).size]

\* isExpired with >= for >
isExpiredAtExpiry(node, t) == node.ttl > 0 /\ t >= node.expiry

\* Node.isExpired
isExpired(node, t) == node.ttl > 0 /\ t > node.expiry

-----------------------------------------------------------------------------
(* The eviction observer: what a registered function does when it is       *)
(* called: "ok" returns, "throwsOnA" throws when it is handed key "a" and  *)
(* returns for the other keys.                                             *)

Callbacks == {"ok", "throwsOnA"}

(* Observers that call back into the cache that is telling them of an       *)
(* eviction: "reGet" reads key "b", "reDelete" deletes key "b", "reClear"   *)
(* clears the cache, and "reSet" puts the evicted entry back with            *)
(* set(key, value), unless it is itself running already (a set made inside  *)
(* the observer can evict and so call the observer again).                  *)

ReentrantCallbacks == {"reGet", "reDelete", "reClear", "reSet"}

\* the arguments of onEviction for which typeof is 'function'
Functions == Callbacks \cup ReentrantCallbacks

CallbackThrows(cb, key) == cb = "throwsOnA" /\ key = "a"

-----------------------------------------------------------------------------
(* The state record the methods work on. exc is a pending exception, ret   *)
(* the value returned, cbLog the observer's invocations during the call,   *)
(* cbBy the function that ran at each of them, evLog the keys the eviction  *)
(* loop removed during the call.                                            *)

St == [nodes |-> nodes, cache |-> cache, head |-> head, tail |-> tail,
       currentSize |-> currentSize, maxSize |-> maxSize,
       defaultTTL |-> defaultTTL, stats |-> stats,
       evictionCallback |-> evictionCallback,
       pruneIntervalId |-> pruneIntervalId, now |-> now, exited |-> exited,
       lru |-> lru,
       exc |-> FALSE, ret |-> Null, cbLog |-> <<>>, cbBy |-> <<>>, evLog |-> <<>>,
       busy |-> FALSE]

Without(seq, key) == SelectSeq(seq, LAMBDA x : x # key)

Range(seq) == {seq[i] : i \in DOMAIN seq}

\* Map.has on this.cache
cacheHas(s, key) == key \in Range(s.cache)

\* history: key was set or read just now
Touch(s, key) == [s EXCEPT !.lru = <<key>> \o Without(s.lru, key)]

\* history: the entry of key is gone
Forget(s, key) == [s EXCEPT !.lru = Without(s.lru, key)]

\* _addToFront that does not set the prev link of the old head
addToFrontNoPrev(s, k) ==
    IF s.head = Null
    THEN [s EXCEPT !.head = k, !.tail = k]
    ELSE [s EXCEPT !.nodes[k].next = s.head, !.head = k]

\* CacheService._addToFront
addToFront(s, k) ==
    IF s.head = Null
    THEN [s EXCEPT !.head = k, !.tail = k]
    ELSE [s EXCEPT !.nodes[k].next = s.head,
                   !.nodes[s.head].prev = k,
                   !.head = k]

\* removeNode with the update of this.tail left out
removeNodeKeepsTail(s, k) ==
    LET node == s.nodes[k]
        s1 == IF k = s.head THEN [s EXCEPT !.head = node.next]
              ELSE IF node.prev # Null THEN [s EXCEPT !.nodes[node.prev].next = node.next]
              ELSE s
        s2 == IF node.next # Null THEN [s1 EXCEPT !.nodes[node.next].prev = node.prev]
              ELSE s1
    IN  [s2 EXCEPT !.nodes[k].prev = Null, !.nodes[k].next = Null]

\* CacheService._removeNode
removeNode(s, k) ==
    LET node == s.nodes[k]
        s1 == IF k = s.head THEN [s EXCEPT !.head = node.next]
              ELSE IF node.prev # Null THEN [s EXCEPT !.nodes[node.prev].next = node.next]
              ELSE s
        s2 == IF k = s1.tail THEN [s1 EXCEPT !.tail = node.prev]
              ELSE IF node.next # Null THEN [s1 EXCEPT !.nodes[node.next].prev = node.prev]
              ELSE s1
    IN  [s2 EXCEPT !.nodes[k].prev = Null, !.nodes[k].next = Null]

\* moveToFront that leaves the list as it is
moveToFrontNot(s, k) == s

\* CacheService._moveToFront
moveToFront(s, k) == addToFront(removeNode(s, k), k)

RECURSIVE set(_, _, _, _), get(_, _), delete(_, _), clear(_)

\* the body of an observer that calls back into the cache
reenter(s, key, value) ==
    CASE s.evictionCallback = "reGet" -> get(s, "b")
      [] s.evictionCallback = "reDelete" -> delete(s, "b")
      [] s.evictionCallback = "reClear" -> clear(s)
      [] s.evictionCallback = "reSet" ->
           IF s.busy THEN s
           ELSE [set([s EXCEPT !.busy = TRUE], key, value, Omitted)
                   EXCEPT !.busy = FALSE]
      [] OTHER -> s

\* the observer returns, or throws, to the loop that called it; what its own
\* calls returned is dropped
observerReturns(s, after, key) ==
    [after EXCEPT !.ret = s.ret,
                  !.exc = after.exc \/ CallbackThrows(s.evictionCallback, key)]

\* this.evictionCallback(key, value): the observer runs, and may throw
invokeCallback(s, key, value) ==
    observerReturns(s,
                    reenter([s EXCEPT !.cbLog = Append(@, <<key, value>>),
                                      !.cbBy = Append(@, s.evictionCallback)],
                            key, value),
                    key)

\* the observer called without the try/catch
callEvictionCallbackNoCatch(s, key, value) == invokeCallback(s, key, value)

\* the try/catch around the observer in _evictEntries: the error is logged
callEvictionCallback(s, key, value) ==
    [invokeCallback(s, key, value) EXCEPT !.exc = FALSE]

\* evictNode with this.currentSize -= node.size left out
evictNodeKeepsSize(s, node) ==
    Forget([removeNode(s, node.key) EXCEPT !.cache = Without(@, node.key),
                                           !.stats.evictions = @ + 1,
                                           !.evLog = Append(@, node.key)],
           node.key)

\* the body of the loop of _evictEntries up to the observer: node is the tail
evictNode(s, node) ==
    Forget([removeNode(s, node.key) EXCEPT !.cache = Without(@, node.key),
                                           !.currentSize = @ - node.size,
                                           !.stats.evictions = @ + 1,
                                           !.evLog = Append(@, node.key)],
           node.key)

\* notifyEviction that writes the size back as it was when the observer was
\* called: const size = this.currentSize; ...; this.currentSize = size
notifyEvictionStaleSize(s, node) ==
    IF s.evictionCallback # Null
    THEN [callEvictionCallback(s, node.key, node.value)
            EXCEPT !.currentSize = s.currentSize]
    ELSE s

\* notifyEviction that tells the observer only while entries are left
notifyEvictionUnlessEmpty(s, node) ==
    IF s.evictionCallback # Null /\ s.tail # Null
    THEN callEvictionCallback(s, node.key, node.value)
    ELSE s

\* if (this.evictionCallback) { try { ... } catch { ... } }
notifyEviction(s, node) ==
    IF s.evictionCallback # Null
    THEN callEvictionCallback(s, node.key, node.value)
    ELSE s

RECURSIVE evictEntries(_)
RECURSIVE evictEntriesToEmpty(_)
\* the eviction loop without the test of the size: it runs until the list is empty
evictEntriesToEmpty(s) ==
    IF ~s.exc /\ s.tail # Null
    THEN evictEntriesToEmpty(notifyEviction(evictNode(s, s.nodes[s.tail]), s.nodes[s.tail]))
    ELSE s

\* CacheService._evictEntries
evictEntries(s) ==
    IF ~s.exc /\ s.currentSize > s.maxSize /\ s.tail # Null
    THEN evictEntries(notifyEviction(evictNode(s, s.nodes[s.tail]), s.nodes[s.tail]))
    ELSE s

\* delete that counts a key it did not find
deleteCountsAbsent(s, key) ==
    IF ~cacheHas(s, key)
    THEN [s EXCEPT !.stats.deletes = @ + 1, !.ret = FALSE]
    ELSE LET node == s.nodes[key]
             s1 == removeNode(s, key)
         IN  Forget([s1 EXCEPT !.cache = Without(@, key),
                               !.currentSize = @ - node.size,
                               !.stats.deletes = @ + 1,
                               !.ret = TRUE], key)

\* CacheService.delete
delete(s, key) ==
    IF ~cacheHas(s, key)
    THEN [s EXCEPT !.ret = FALSE]
    ELSE LET node == s.nodes[key]
             s1 == removeNode(s, key)
         IN  Forget([s1 EXCEPT !.cache = Without(@, key),
                               !.currentSize = @ - node.size,
                               !.stats.deletes = @ + 1,
                               !.ret = TRUE], key)

\* insertNode with this.stats.sets++ left out
insertNodeUncounted(s, node) ==
    Touch([addToFront([s EXCEPT !.nodes = (node.key :> node) @@ @,
                                !.cache = Append(@, node.key)], node.key)
             EXCEPT !.currentSize = @ + node.size],
          node.key)

\* set: this.cache.set(key, node) ... this.stats.sets++
insertNode(s, node) ==
    Touch([addToFront([s EXCEPT !.nodes = (node.key :> node) @@ @,
                                !.cache = Append(@, node.key)], node.key)
             EXCEPT !.currentSize = @ + node.size,
                    !.stats.sets = @ + 1],
          node.key)

\* set: if (this.currentSize > this.maxSize) this._evictEntries(); return true
evictIfNecessary(s) ==
    IF s.currentSize > s.maxSize THEN evictEntries(s) ELSE s

\* set: return true at the end of the try block, return false in the catch
returnOrCatch(s) ==
    IF s.exc THEN [s EXCEPT !.exc = FALSE, !.ret = FALSE]
    ELSE [s EXCEPT !.ret = TRUE]

\* set: the rest of the try block once the old entry is gone
setNew(s, key, value, ttl) ==
    IF ~calculateSize(value).ok
    THEN returnOrCatch([s EXCEPT !.exc = TRUE])  \* new Node throws
    ELSE returnOrCatch(evictIfNecessary(insertNode(s, NewNode(key, value, ttl, s.now))))

\* CacheService.set; ttlArg = Omitted is a call without the third argument
set(s, key, value, ttlArg) ==
    setNew(IF cacheHas(s, key) THEN delete(s, key) ELSE s,
           key, value,
           IF ttlArg = Omitted THEN s.defaultTTL ELSE ttlArg)

\* get that reports an expired entry absent and leaves it where it is
getLeavesExpired(s, key) ==
    IF ~cacheHas(s, key)
    THEN [s EXCEPT !.stats.misses = @ + 1, !.ret = VUndefined]
    ELSE LET node == s.nodes[key]
         IN  IF isExpired(node, s.now)
             THEN [s EXCEPT !.stats.expirations = @ + 1,
                            !.stats.misses = @ + 1,
                            !.ret = VUndefined]
             ELSE [Touch(moveToFront(s, key) , key) EXCEPT !.stats.hits = @ + 1,
                                                           !.ret = node.value]

\* CacheService.get
get(s, key) ==
    IF ~cacheHas(s, key)
    THEN [s EXCEPT !.stats.misses = @ + 1, !.ret = VUndefined]
    ELSE LET node == s.nodes[key]
         IN  IF isExpired(node, s.now)
             THEN [delete(s, key) EXCEPT !.stats.expirations = @ + 1,
                                         !.stats.misses = @ + 1,
                                         !.ret = VUndefined]
             ELSE [Touch(moveToFront(s, key), key) EXCEPT !.stats.hits = @ + 1,
                                                          !.ret = node.value]

\* has that marks a live entry as recently used, as get does
hasPromotes(s, key) ==
    IF ~cacheHas(s, key)
    THEN [s EXCEPT !.ret = FALSE]
    ELSE IF isExpired(s.nodes[key], s.now)
         THEN [delete(s, key) EXCEPT !.ret = FALSE]
         ELSE [moveToFront(s, key) EXCEPT !.ret = TRUE]

\* has that counts an expired key as a miss, as get does
hasCountsMiss(s, key) ==
    IF ~cacheHas(s, key)
    THEN [s EXCEPT !.ret = FALSE]
    ELSE IF isExpired(s.nodes[key], s.now)
         THEN [delete(s, key) EXCEPT !.stats.misses = @ + 1, !.ret = FALSE]
         ELSE [s EXCEPT !.ret = TRUE]

\* CacheService.has
has(s, key) ==
    IF ~cacheHas(s, key)
    THEN [s EXCEPT !.ret = FALSE]
    ELSE IF isExpired(s.nodes[key], s.now)
         THEN [delete(s, key) EXCEPT !.ret = FALSE]
         ELSE [s EXCEPT !.ret = TRUE]

\* clear that also starts the counters again
clearResetsStats(s) ==
    [s EXCEPT !.cache = <<>>, !.head = Null, !.tail = Null, !.currentSize = 0,
              !.lru = <<>>,
              !.stats = [hits |-> 0, misses |-> 0, sets |-> 0, deletes |-> 0,
                         evictions |-> 0, expirations |-> 0]]

\* CacheService.clear
clear(s) ==
    [s EXCEPT !.cache = <<>>, !.head = Null, !.tail = Null, !.currentSize = 0,
              !.lru = <<>>]

RECURSIVE setEach(_, _, _, _)
\* the forEach of setMany: the value set returns is dropped
setEach(s, list, i, ttl) ==
    IF s.exc \/ i > Len(list) THEN s
    ELSE setEach(set(s, list[i][1], list[i][2], ttl), list, i + 1, ttl)

\* CacheService.setMany
setMany(s, batch, ttlArg) ==
    LET ttl == IF ttlArg = Omitted THEN s.defaultTTL ELSE ttlArg
    IN  IF ~batch.isObject
        THEN returnOrCatch([s EXCEPT !.exc = TRUE])  \* Object.entries throws
        ELSE returnOrCatch(setEach(s, batch.list, 1, ttl))

\* putResult that also records a key whose get was absent
putResultAlways(result, key, value) ==
    Append(SelectSeq(result, LAMBDA e : e[1] # key), <<key, value>>)

\* getMany: result[key] = value, for a value that is not undefined
putResult(result, key, value) ==
    IF value # VUndefined
    THEN Append(SelectSeq(result, LAMBDA e : e[1] # key), <<key, value>>)
    ELSE result

RECURSIVE getEach(_, _, _, _)
\* getMany, after the get of keys[i] has left r
gotOne(r, keys, i, result) ==
    getEach(r, keys, i + 1, putResult(result, keys[i], r.ret))

\* the forEach of getMany; the object returned is the sequence of its [key, value]
getEach(s, keys, i, result) ==
    IF i > Len(keys) THEN [s EXCEPT !.ret = result]
    ELSE gotOne(get(s, keys[i]), keys, i, result)

\* CacheService.getMany
getMany(s, keys) == getEach(s, keys, 1, <<>>)

RECURSIVE deleteEach(_, _, _, _)
\* deleteMany, after the delete of keys[i] has left r
deletedOne(r, keys, i, deletedCount) ==
    deleteEach(r, keys, i + 1, IF r.ret THEN deletedCount + 1 ELSE deletedCount)

\* the forEach of deleteMany
deleteEach(s, keys, i, deletedCount) ==
    IF i > Len(keys) THEN [s EXCEPT !.ret = deletedCount]
    ELSE deletedOne(delete(s, keys[i]), keys, i, deletedCount)

\* CacheService.deleteMany
deleteMany(s, keys) == deleteEach(s, keys, 1, 0)

\* CacheService.values: the Map is walked in insertion order
values(s) ==
    LET RECURSIVE Go(_, _, _)
        Go(st, ks, vals) ==
            IF ks = <<>> THEN [st EXCEPT !.ret = vals]
            ELSE LET key == Head(ks)
                     node == st.nodes[key]
                 IN  IF ~isExpired(node, st.now)
                     THEN Go(st, Tail(ks), Append(vals, node.value))
                     ELSE Go(delete(st, key), Tail(ks), vals)
    IN  Go(s, s.cache, <<>>)

\* entries that removes the expired entries and still returns them
entriesReturnsExpired(s) ==
    LET RECURSIVE Go(_, _, _)
        Go(st, ks, ents) ==
            IF ks = <<>> THEN [st EXCEPT !.ret = ents]
            ELSE LET key == Head(ks)
                     node == st.nodes[key]
                 IN  IF ~isExpired(node, st.now)
                     THEN Go(st, Tail(ks), Append(ents, <<key, node.value>>))
                     ELSE Go(delete(st, key), Tail(ks), Append(ents, <<key, node.value>>))
    IN  Go(s, s.cache, <<>>)

\* CacheService.entries
entries(s) ==
    LET RECURSIVE Go(_, _, _)
        Go(st, ks, ents) ==
            IF ks = <<>> THEN [st EXCEPT !.ret = ents]
            ELSE LET key == Head(ks)
                     node == st.nodes[key]
                 IN  IF ~isExpired(node, st.now)
                     THEN Go(st, Tail(ks), Append(ents, <<key, node.value>>))
                     ELSE Go(delete(st, key), Tail(ks), ents)
    IN  Go(s, s.cache, <<>>)

\* prune whose loop skips the key that follows a key it deleted
pruneSkipsAfterDelete(s) ==
    LET t == s.now
        RECURSIVE Go(_, _, _)
        Go(st, ks, prunedCount) ==
            IF ks = <<>> THEN [st EXCEPT !.ret = prunedCount]
            ELSE LET key == Head(ks)
                     node == st.nodes[key]
                 IN  IF node.ttl > 0 /\ t > node.expiry
                     THEN Go([delete(st, key) EXCEPT !.stats.expirations = @ + 1],
                             IF Len(ks) > 1 THEN Tail(Tail(ks)) ELSE <<>>,
                             prunedCount + 1)
                     ELSE Go(st, Tail(ks), prunedCount)
    IN  Go(s, s.cache, 0)

\* prune that counts the expired entries and deletes none
pruneCountsOnly(s) ==
    [s EXCEPT !.ret = Cardinality({k \in Range(s.cache) :
                                     s.nodes[k].ttl > 0 /\ s.now > s.nodes[k].expiry})]

\* prune that takes an entry for expired at its expiry time already
pruneAtExpiry(s) ==
    LET t == s.now
        RECURSIVE Go(_, _, _)
        Go(st, ks, prunedCount) ==
            IF ks = <<>> THEN [st EXCEPT !.ret = prunedCount]
            ELSE LET key == Head(ks)
                     node == st.nodes[key]
                 IN  IF node.ttl > 0 /\ t >= node.expiry
                     THEN Go([delete(st, key) EXCEPT !.stats.expirations = @ + 1],
                             Tail(ks), prunedCount + 1)
                     ELSE Go(st, Tail(ks), prunedCount)
    IN  Go(s, s.cache, 0)

\* prune that removes every entry that has a TTL, whatever the time
pruneIgnoresClock(s) ==
    LET RECURSIVE Go(_, _, _)
        Go(st, ks, prunedCount) ==
            IF ks = <<>> THEN [st EXCEPT !.ret = prunedCount]
            ELSE IF st.nodes[Head(ks)].ttl > 0
                 THEN Go([delete(st, Head(ks)) EXCEPT !.stats.expirations = @ + 1],
                         Tail(ks), prunedCount + 1)
                 ELSE Go(st, Tail(ks), prunedCount)
    IN  Go(s, s.cache, 0)

\* CacheService.prune
prune(s) ==
    LET t == s.now
        RECURSIVE Go(_, _, _)
        Go(st, ks, prunedCount) ==
            IF ks = <<>> THEN [st EXCEPT !.ret = prunedCount]
            ELSE LET key == Head(ks)
                     node == st.nodes[key]
                 IN  IF node.ttl > 0 /\ t > node.expiry
                     THEN Go([delete(st, key) EXCEPT !.stats.expirations = @ + 1],
                             Tail(ks), prunedCount + 1)
                     ELSE Go(st, Tail(ks), prunedCount)
    IN  Go(s, s.cache, 0)

\* CacheService.setMaxSize
setMaxSize(s, size) ==
    LET s1 == [s EXCEPT !.maxSize = size]
        s2 == IF s1.currentSize > s1.maxSize THEN evictEntries(s1) ELSE s1
    IN  [s2 EXCEPT !.ret = Null]

\* setDefaultTTL that also gives the entries already there the new TTL
setDefaultTTLRetroactive(s, ttl) ==
    [s EXCEPT !.defaultTTL = ttl,
              !.nodes = [k \in DOMAIN s.nodes |->
                           [s.nodes[k] EXCEPT !.ttl = ttl,
                                              !.expiry = IF ttl > 0 THEN s.now + ttl ELSE 0]]]

\* CacheService.setDefaultTTL
setDefaultTTL(s, ttl) == [s EXCEPT !.defaultTTL = ttl]

\* onEviction that keeps the observer it already has
onEvictionKeepsFirst(s, callback) ==
    IF s.evictionCallback # Null /\ callback \in Functions
    THEN s
    ELSE IF callback \in Functions
         THEN [s EXCEPT !.evictionCallback = callback]
         ELSE [s EXCEPT !.evictionCallback = Null]

\* CacheService.onEviction; Null is an argument that is not a function
onEviction(s, callback) ==
    IF callback \in Functions
    THEN [s EXCEPT !.evictionCallback = callback]
    ELSE [s EXCEPT !.evictionCallback = Null]

(* Patterns for deletePattern. A pattern is told by the keys of one         *)
(* character it accepts, or, for "^" followed by literal characters, by the *)
(* prefix a key has to start with; source "(" does not compile. A RegExp    *)
(* object is compiled already, and carries its flags: "g" makes test start  *)
(* at lastIndex and leave the end of the match there.                       *)

\* the key prefixes of the geolocation service
LOCATION_CACHE_PREFIX == "geolocation:location:"
REGION_CONFIG_CACHE_PREFIX == "geolocation:config:region:"
COUNTRY_CONFIG_CACHE_PREFIX == "geolocation:config:country:"

CachePrefixes ==
    {LOCATION_CACHE_PREFIX, REGION_CONFIG_CACHE_PREFIX, COUNTRY_CONFIG_CACHE_PREFIX}

Pattern(isRegExp, source, flags) ==
    [isRegExp |-> isRegExp, source |-> source, flags |-> flags]

Patterns ==
    {Pattern(TRUE, "^a", ""), Pattern(TRUE, "[bc]", "g"),
     Pattern(FALSE, "[bc]", ""), Pattern(FALSE, "(", "")}

\* new RegExp(source, flags): [ok |-> FALSE] for a SyntaxError
compileRegExp(source, flags) ==
    CASE source = "^a" ->
           [ok |-> TRUE, accepts |-> {"a"}, prefix |-> "", global |-> flags = "g",
            lastIndex |-> 0]
      [] source = "[bc]" ->
           [ok |-> TRUE, accepts |-> {"b", "c"}, prefix |-> "", global |-> flags = "g",
            lastIndex |-> 0]
      [] source \in {"^" \o p : p \in CachePrefixes} ->
           [ok |-> TRUE, accepts |-> {}, prefix |-> SubSeq(source, 2, Len(source)),
            global |-> flags = "g", lastIndex |-> 0]
      [] OTHER ->
           [ok |-> FALSE, accepts |-> {}, prefix |-> "", global |-> FALSE,
            lastIndex |-> 0]

\* String.prototype.startsWith
startsWith(str, prefix) ==
    Len(str) >= Len(prefix) /\ SubSeq(str, 1, Len(prefix)) = prefix

\* the regular expression matches key from its first character on
matchesAtStart(regex, key) ==
    \/ key \in regex.accepts
    \/ regex.prefix # "" /\ startsWith(key, regex.prefix)

\* regex.test(key): the result and the lastIndex it leaves. With the g flag
\* the search starts at lastIndex; the patterns here match at the start of
\* the key only, so it succeeds from 0 alone and leaves the end of the match,
\* and a failure leaves 0.
regexTest(regex, key) ==
    IF regex.global
    THEN IF regex.lastIndex = 0 /\ matchesAtStart(regex, key)
         THEN [ret |-> TRUE,
               lastIndex |-> IF key \in regex.accepts THEN 1 ELSE Len(regex.prefix)]
         ELSE [ret |-> FALSE, lastIndex |-> 0]
    ELSE [ret |-> matchesAtStart(regex, key), lastIndex |-> regex.lastIndex]

RECURSIVE deletePatternEach(_, _, _, _)
\* deletePattern, after regex.test of the first key of ks has left r
deletePatternTested(st, ks, deletedCount, regex, r) ==
    deletePatternEach(IF r.ret THEN delete(st, Head(ks)) ELSE st,
                      Tail(ks),
                      IF r.ret THEN deletedCount + 1 ELSE deletedCount,
                      [regex EXCEPT !.lastIndex = r.lastIndex])

\* the loop of deletePattern over this.cache.keys()
deletePatternEach(st, ks, deletedCount, regex) ==
    IF ks = <<>> THEN [st EXCEPT !.ret = deletedCount]
    ELSE deletePatternTested(st, ks, deletedCount, regex, regexTest(regex, Head(ks)))

\* CacheService.deletePattern
deletePattern(s, pattern) ==
    IF ~pattern.isRegExp /\ ~compileRegExp(pattern.source, "").ok
    THEN [s EXCEPT !.exc = TRUE]  \* new RegExp throws, nothing catches it
    ELSE deletePatternEach(s, s.cache, 0,
                           compileRegExp(pattern.source,
                                         IF pattern.isRegExp THEN pattern.flags ELSE ""))

\* CacheService.keys
keys(s) == s.cache

\* CacheService.getStats (usagePercentage left out: it is a fraction)
getStats(s) ==
    [size |-> Len(s.cache), currentSize |-> s.currentSize, maxSize |-> s.maxSize,
     hits |-> s.stats.hits, misses |-> s.stats.misses, sets |-> s.stats.sets,
     deletes |-> s.stats.deletes, evictions |-> s.stats.evictions,
     expirations |-> s.stats.expirations]

\* _stopPruneInterval that leaves the interval armed
stopPruneIntervalNot(s) == s

\* CacheService._stopPruneInterval
stopPruneInterval(s) ==
    IF s.pruneIntervalId THEN [s EXCEPT !.pruneIntervalId = FALSE] ELSE s

\* destroy that also starts the counters again
destroyResetsStats(s) == clearResetsStats(stopPruneInterval(s))

\* CacheService.destroy
destroy(s) == clear(stopPruneInterval(s))

-----------------------------------------------------------------------------
(* Actions: one per public call *)

\* the state a call leaves, and the record of the call
CommitCache(s, c) ==
    /\ nodes' = [k \in Range(s.cache) |-> s.nodes[k]]  \* unreachable Nodes are collected
    /\ cache' = s.cache
    /\ head' = s.head
    /\ tail' = s.tail
    /\ currentSize' = s.currentSize
    /\ maxSize' = s.maxSize
    /\ defaultTTL' = s.defaultTTL
    /\ stats' = s.stats
    /\ evictionCallback' = s.evictionCallback
    /\ pruneIntervalId' = s.pruneIntervalId
    /\ exited' = s.exited
    /\ lru' = s.lru
    /\ call' = c
    /\ UNCHANGED <<now, appVars>>

\* the same for a call of the cache itself: the geolocation service is not involved
Commit(s, c) ==
    /\ CommitCache(s, c)
    /\ UNCHANGED inflight

\* history: the call made, what it returned or threw, what the observer
\* was told, what the eviction loop removed, and the keys before the call
(* What a call returned and what it was handed are kept as records with one  *)
(* field, named after the kind of value, so that two calls' records can      *)
(* always be compared.                                                      *)

Bool(b) == [bool |-> b]
Count(n) == [count |-> n]
Value(v) == [value |-> v]
Nothing == [none |-> Null]

\* the value the call of op returned; Nothing for undefined and for a throw
RetOf(op, s) ==
    IF s.exc THEN Nothing
    ELSE CASE op \in {"set", "has", "delete", "setMany"} -> Bool(s.ret)
           [] op = "get" -> Value(s.ret)
           [] op = "getMany" -> [object |-> s.ret]
           [] op = "values" -> [values |-> s.ret]
           [] op = "entries" -> [entries |-> s.ret]
           [] op \in {"deleteMany", "prune", "deletePattern", "timer"} -> Count(s.ret)
           [] OTHER -> Nothing

\* the argument of the call of op that is neither key, value nor ttl
ArgOf(op, arg) ==
    CASE op = "setMany" -> [entries |-> arg]
      [] op \in {"getMany", "deleteMany"} -> [keys |-> arg]
      [] op = "setMaxSize" -> [size |-> arg]
      [] op = "onEviction" -> [callback |-> arg]
      [] op = "deletePattern" -> [pattern |-> arg]
      [] OTHER -> Nothing

\* history: the Nodes the call took out of the Map and did not put back, with
\* the links they are left with
Gone(s) ==
    {[key |-> k, prev |-> s.nodes[k].prev, next |-> s.nodes[k].next] :
       k \in DOMAIN s.nodes \ Range(s.cache)}

Call(op, key, value, ttl, arg, s) ==
    [op |-> op, key |-> key, value |-> value, ttl |-> ttl, arg |-> ArgOf(op, arg),
     ret |-> RetOf(op, s), threw |-> s.exc, cbLog |-> s.cbLog, evLog |-> s.evLog,
     before |-> cache, gone |-> Gone(s), cbBy |-> s.cbBy]

PublicCall ==
    /\ ~exited
    /\ nOps < MaxOps
    /\ nOps' = nOps + 1

(* The arguments the calls are made with *)

VSmall == VStr(1)                      \* 2 bytes
VBig == VObj(<<1>>, <<VStr(1)>>)       \* 4 bytes
VBad == VArr(<<VStr(1), VCyclic>>)     \* the walk throws

\* set(key, value, ttl): the (value, ttl) pairs
SetArgs == {<<VSmall, 0>>, <<VSmall, 1>>, <<VBig, Omitted>>, <<VNull, 0>>, <<VBad, 1>>}

ObjectEntries(list) == [isObject |-> TRUE, list |-> list]
NullEntries == [isObject |-> FALSE, list |-> <<>>]

\* setMany(entries, ttl)
SetManyArgs ==
    {<<ObjectEntries(<< <<"a", VSmall>>, <<"b", VSmall>> >>), 0>>,
     <<ObjectEntries(<< <<"b", VSmall>>, <<"c", VSmall>> >>), 1>>,
     <<ObjectEntries(<< <<"a", VSmall>>, <<"b", VBad>>, <<"c", VSmall>> >>), Omitted>>,
     <<NullEntries, Omitted>>}

GetManyArgs == {<<"a", "b">>, <<"b", "a", "b">>}
DeleteManyArgs == {<<"a", "b">>, <<"c", "c">>}
MaxSizeArgs == {0, 2}
DefaultTTLArgs == {0, 1}
OnEvictionArgs == Callbacks \cup {Null}

Set ==
    /\ PublicCall
    /\ \E key \in Keys, a \in SetArgs :
         LET s == set(St, key, a[1], a[2])
         IN  Commit(s, Call("set", key, a[1], a[2], Null, s))

Get ==
    /\ PublicCall
    /\ \E key \in Keys :
         LET s == get(St, key)
         IN  Commit(s, Call("get", key, VUndefined, 0, Null, s))

Has ==
    /\ PublicCall
    /\ \E key \in Keys :
         LET s == has(St, key)
         IN  Commit(s, Call("has", key, VUndefined, 0, Null, s))

Delete ==
    /\ PublicCall
    /\ \E key \in Keys :
         LET s == delete(St, key)
         IN  Commit(s, Call("delete", key, VUndefined, 0, Null, s))

Clear ==
    /\ PublicCall
    /\ LET s == clear(St)
       IN  Commit(s, Call("clear", Null, VUndefined, 0, Null, s))

SetMany ==
    /\ PublicCall
    /\ \E a \in SetManyArgs :
         LET s == setMany(St, a[1], a[2])
         IN  Commit(s, Call("setMany", Null, VUndefined, a[2], a[1], s))

GetMany ==
    /\ PublicCall
    /\ \E list \in GetManyArgs :
         LET s == getMany(St, list)
         IN  Commit(s, Call("getMany", Null, VUndefined, 0, list, s))

DeleteMany ==
    /\ PublicCall
    /\ \E list \in DeleteManyArgs :
         LET s == deleteMany(St, list)
         IN  Commit(s, Call("deleteMany", Null, VUndefined, 0, list, s))

ValuesCall ==
    /\ PublicCall
    /\ LET s == values(St)
       IN  Commit(s, Call("values", Null, VUndefined, 0, Null, s))

Entries ==
    /\ PublicCall
    /\ LET s == entries(St)
       IN  Commit(s, Call("entries", Null, VUndefined, 0, Null, s))

Prune ==
    /\ PublicCall
    /\ LET s == prune(St)
       IN  Commit(s, Call("prune", Null, VUndefined, 0, Null, s))

SetMaxSize ==
    /\ PublicCall
    /\ \E size \in MaxSizeArgs :
         LET s == setMaxSize(St, size)
         IN  Commit(s, Call("setMaxSize", Null, VUndefined, 0, size, s))

SetDefaultTTL ==
    /\ PublicCall
    /\ \E ttl \in DefaultTTLArgs :
         LET s == setDefaultTTL(St, ttl)
         IN  Commit(s, Call("setDefaultTTL", Null, VUndefined, ttl, Null, s))

OnEviction ==
    /\ PublicCall
    /\ \E callback \in OnEvictionArgs :
         LET s == onEviction(St, callback)
         IN  Commit(s, Call("onEviction", Null, VUndefined, 0, callback, s))

DeletePattern ==
    /\ PublicCall
    /\ \E pattern \in Patterns :
         LET s == deletePattern(St, pattern)
         IN  Commit(s, Call("deletePattern", Null, VUndefined, 0, pattern, s))

Destroy ==
    /\ PublicCall
    /\ LET s == destroy(St)
       IN  Commit(s, Call("destroy", Null, VUndefined, 0, Null, s))

\* the callback of setInterval in _startPruneInterval: a sweep between two calls
TimerPrune ==
    /\ pruneIntervalId
    /\ \E s \in {prune(St)} :
         Commit(s, Call("timer", Null, VUndefined, 0, Null, s))
    /\ UNCHANGED nOps

\* What Node does with an error that leaves a timer callback: no handler of
\* 'uncaughtException' is installed, so the process ends, and the handler of
\* 'exit' calls cacheService.destroy().
uncaughtException(s) == [destroy(s) EXCEPT !.exited = TRUE, !.exc = TRUE]

\* the callback of setInterval when the sweep throws: prune is not wrapped in
\* try/catch; what can throw in it is the call of logger.debug, which is made
\* once entries have been pruned
TimerPruneThrows ==
    /\ pruneIntervalId
    /\ \E s \in {prune(St)} :
         /\ s.ret > 0
         /\ Commit(uncaughtException(s),
                   Call("timer", Null, VUndefined, 0, Null, uncaughtException(s)))
    /\ UNCHANGED nOps

\* the clock advances between calls
Tick ==
    /\ now < MaxTime
    /\ now' = now + 1
    /\ UNCHANGED <<nodes, cache, head, tail, currentSize, maxSize, defaultTTL,
                   stats, evictionCallback, pruneIntervalId, exited, inflight,
                   appVars, lru, call, nOps>>

\* CacheService.constructor(options); an option of 0 is an option left out
construct(options) ==
    [nodes |-> [k \in {} |-> Null],
     cache |-> <<>>,
     head |-> Null,
     tail |-> Null,
     currentSize |-> 0,
     maxSize |-> IF options.maxSize # 0 THEN options.maxSize ELSE DefaultMaxSize,
     defaultTTL |-> IF options.defaultTTL # 0 THEN options.defaultTTL ELSE DefaultTTL,
     stats |-> [hits |-> 0, misses |-> 0, sets |-> 0, deletes |-> 0,
                evictions |-> 0, expirations |-> 0],
     evictionCallback |-> Null,
     pruneIntervalId |-> TRUE]

Options == {[maxSize |-> 0, defaultTTL |-> 0], [maxSize |-> 4, defaultTTL |-> 0]}

Init ==
    /\ \E options \in Options :
         LET s == construct(options)
         IN  /\ nodes = s.nodes
             /\ cache = s.cache
             /\ head = s.head
             /\ tail = s.tail
             /\ currentSize = s.currentSize
             /\ maxSize = s.maxSize
             /\ defaultTTL = s.defaultTTL
             /\ stats = s.stats
             /\ evictionCallback = s.evictionCallback
             /\ pruneIntervalId = s.pruneIntervalId
    /\ now = 0
    /\ exited = FALSE
    /\ inflight = <<>>
    /\ geoipCache = <<>>
    /\ user = [loginAttempts |-> 0, lockUntil |-> 0, active |-> TRUE]
    /\ tokens = <<>>
    /\ logins = EmptyBag
    /\ refreshes = EmptyBag
    /\ authLog = [logins |-> 0, refreshes |-> 0, failedChecks |-> 0, used |-> EmptyBag]
    /\ lru = <<>>
    /\ call = [op |-> "new", key |-> Null, value |-> VUndefined, ttl |-> 0,
               arg |-> Nothing, ret |-> Nothing, threw |-> FALSE, cbLog |-> <<>>,
               evLog |-> <<>>, before |-> <<>>, gone |-> {},
               cbBy |-> <<>>]
    /\ nOps = 0

Next ==
    \/ Set
    \/ Get
    \/ Has
    \/ Delete
    \/ Clear
    \/ SetMany
    \/ GetMany
    \/ DeleteMany
    \/ ValuesCall
    \/ Entries
    \/ Prune
    \/ SetMaxSize
    \/ SetDefaultTTL
    \/ OnEviction
    \/ DeletePattern
    \/ Destroy
    \/ TimerPrune
    \/ TimerPruneThrows
    \/ Tick

Spec == Init /\ [][Next]_vars

(* setInterval keeps calling the sweep for as long as the interval is not     *)
(* cleared: the callback is not put off for ever.                           *)

\* The calls that make, replace, read and remove entries, the clock and the
\* timer: what the question whether an expired entry lingers depends on.
NextTimer ==
    \/ Set
    \/ SetMany
    \/ Get
    \/ Has
    \/ Delete
    \/ Clear
    \/ Destroy
    \/ TimerPrune
    \/ Tick

SpecTimer == Init /\ [][NextTimer]_vars /\ WF_vars(TimerPrune)

(* The cache on which neither clear nor destroy is called (the exit of the  *)
(* process calls destroy).                                                  *)

NextNoClear ==
    \/ Set
    \/ Get
    \/ Has
    \/ Delete
    \/ SetMany
    \/ GetMany
    \/ DeleteMany
    \/ ValuesCall
    \/ Entries
    \/ Prune
    \/ SetMaxSize
    \/ SetDefaultTTL
    \/ OnEviction
    \/ DeletePattern
    \/ TimerPrune
    \/ Tick

SpecNoClear == Init /\ [][NextNoClear]_vars

(* The cache with an observer that calls back into it: the calls that can   *)
(* evict, the registration of such an observer, and the clock.              *)

OnEvictionReentrant ==
    /\ PublicCall
    /\ \E callback \in ReentrantCallbacks :
         LET s == onEviction(St, callback)
         IN  Commit(s, Call("onEviction", Null, VUndefined, 0, callback, s))

NextReentrant ==
    \/ OnEvictionReentrant
    \/ Set
    \/ SetMany
    \/ SetMaxSize
    \/ Tick

SpecReentrant == Init /\ [][NextReentrant]_vars

-----------------------------------------------------------------------------
(* The geolocation service. It keeps what it has found in the shared cache, *)
(* under keys that start with one of its three prefixes. Its functions are  *)
(* async: one that has to ask the GeoIP reader or the database gives way    *)
(* at its await, and goes on in a later step, when the answer is there.     *)
(* Strings are strings here; a character is a string of length 1.           *)

LOCATION_CACHE_TTL == 3600000
CONFIG_CACHE_TTL == 1800000

\* the calls that may await an answer at the same time
MaxInflight == 2

\* the half hours that may pass
MaxHalfHours == 3

charAt(str, i) == SubSeq(str, i, i)

Digits == {"0", "1", "2", "3", "4", "5", "6", "7", "8", "9"}

HexDigits == Digits \cup {"a", "b", "c", "d", "e", "f", "A", "B", "C", "D", "E", "F"}

\* every character of str is one of chars
allIn(str, chars) == \A i \in 1..Len(str) : charAt(str, i) \in chars

RECURSIVE splitFrom(_, _, _, _, _)
\* split, for the part of str that starts at start, read up to i
splitFrom(str, sep, start, i, acc) ==
    IF i > Len(str) THEN Append(acc, SubSeq(str, start, Len(str)))
    ELSE IF charAt(str, i) = sep
         THEN splitFrom(str, sep, i + 1, i + 1, Append(acc, SubSeq(str, start, i - 1)))
         ELSE splitFrom(str, sep, start, i + 1, acc)

\* String.prototype.split(sep), for a separator of one character
split(str, sep) == splitFrom(str, sep, 1, 1, <<>>)

RECURSIVE join(_, _)
\* Array.prototype.join(sep)
join(parts, sep) ==
    IF parts = <<>> THEN ""
    ELSE IF Len(parts) = 1 THEN parts[1]
         ELSE parts[1] \o sep \o join(Tail(parts), sep)

digitValue(c) ==
    CASE c = "0" -> 0 [] c = "1" -> 1 [] c = "2" -> 2 [] c = "3" -> 3 [] c = "4" -> 4
      [] c = "5" -> 5 [] c = "6" -> 6 [] c = "7" -> 7 [] c = "8" -> 8 [] c = "9" -> 9

RECURSIVE parseIntFrom(_, _, _)
parseIntFrom(str, i, acc) ==
    IF i > Len(str) THEN acc
    ELSE parseIntFrom(str, i + 1, acc * 10 + digitValue(charAt(str, i)))

\* parseInt(str, 10), for a string of digits
parseInt(str) == parseIntFrom(str, 1, 0)

RECURSIVE trimStart(_), trimEnd(_)
trimStart(str) ==
    IF str # "" /\ charAt(str, 1) = " " THEN trimStart(SubSeq(str, 2, Len(str))) ELSE str

trimEnd(str) ==
    IF str # "" /\ charAt(str, Len(str)) = " "
    THEN trimEnd(SubSeq(str, 1, Len(str) - 1))
    ELSE str

\* String.prototype.trim, for blanks
trim(str) == trimEnd(trimStart(str))

\* one alternative group of ipv4Regex: 25[0-5] | 2[0-4][0-9] | [01]?[0-9][0-9]?
isOctet(o) ==
    /\ Len(o) \in 1..3
    /\ allIn(o, Digits)
    /\ Len(o) = 3 => parseInt(o) <= 255

\* isValidIpv4Address: four such groups with a dot between them
isValidIpv4Address(ip) ==
    /\ ip # ""
    /\ \E parts \in {split(ip, ".")} :
         /\ Len(parts) = 4
         /\ \A i \in 1..4 : isOctet(parts[i])

\* [0-9a-fA-F]{1,4}
isHexGroup(g) == Len(g) \in 1..4 /\ allIn(g, HexDigits)

\* the groups of one side of "::"
groupsOf(str) == IF str = "" THEN <<>> ELSE split(str, ":")

\* the places where "::" stands in ip
doubleColons(ip) == {i \in 1..(Len(ip) - 1) : SubSeq(ip, i, i + 1) = "::"}

\* the branches of ipv6Regex for a "::" at place i: the groups before and
\* after it are at most seven together
isCompressedIpv6(ip, i) ==
    \E before \in {groupsOf(SubSeq(ip, 1, i - 1))},
       after \in {groupsOf(SubSeq(ip, i + 2, Len(ip)))} :
         /\ Len(before) + Len(after) <= 7
         /\ \A j \in DOMAIN before : isHexGroup(before[j])
         /\ \A j \in DOMAIN after : isHexGroup(after[j])

\* isValidIpv6Address: eight groups, or fewer around one "::" (the branches
\* with a zone or with an IPv4 address inside are left out: no argument of
\* the model has either)
isValidIpv6Address(ip) ==
    /\ ip # ""
    /\ IF doubleColons(ip) = {}
       THEN \E parts \in {split(ip, ":")} :
              /\ Len(parts) = 8
              /\ \A i \in 1..8 : isHexGroup(parts[i])
       ELSE \E i \in doubleColons(ip) : isCompressedIpv6(ip, i)

\* isValidIpAddress
isValidIpAddress(ip) == isValidIpv4Address(ip) \/ isValidIpv6Address(ip)

\* the octets of a valid IPv4 address without their leading zeros
octetsToString(parts) == [i \in DOMAIN parts |-> ToString(parseInt(parts[i]))]

\* normalizeIpAddress, once trim has been applied
normalizeTrimmed(ip) ==
    IF ~isValidIpAddress(ip) THEN Null
    ELSE IF isValidIpv4Address(ip) THEN join(octetsToString(split(ip, ".")), ".")
         ELSE ip  \* net is not defined in the module: the address as it is

\* normalizeIpAddress; Null is null
normalizeIpAddress(ip) == IF ip = "" THEN Null ELSE normalizeTrimmed(trim(ip))

\* a value is truthy: what if (value) tests
truthy(value) ==
    /\ value.t \notin {"null", "undefined"}
    /\ ~(value.t = "string" /\ value.n = 0)

\* geoipService.getLocationByIp: the locationData it builds for an address
\* the reader knows, here its ip and its country (code and name)
locationData(normalizedIp) ==
    VObj(<<2, 7>>, <<VStr(Len(normalizedIp)), VObj(<<4, 4>>, <<VStr(2), VStr(7)>>)>>)

\* what getLocationByIp answers: the address is known, it is not (null), or
\* the promise is rejected
LookupOutcomes == {"found", "null", "throws"}

\* what Country.findOne answers in enhanceLocationData
CountryOutcomes == {"found", "null"}

\* enhanceLocationData: currency, languages and timezone are added to the
\* country of the location when the database knows the country
enhanceLocationData(location, country) ==
    IF country = "null" THEN location
    ELSE [location EXCEPT
            !.items[2] = VObj(@.klens \o <<8, 9, 8>>,
                              @.items \o <<VStr(3), VArr(<<VStr(2)>>), VStr(13)>>)]

\* a call that waits at its await: which function, the cache key it works
\* for, the argument it asked with, the configType, and for a call of
\* getRegionConfigurations made by getCountryConfigurations the cache key of
\* the country
Awaiting(kind, key, arg, type, then) ==
    [kind |-> kind, key |-> key, arg |-> arg, type |-> type, then |-> then]

\* what the part of a function up to its return or its first await leaves:
\* the cache, the key it worked with, what it returned if it did, and the
\* call that now waits if it did not
Part(s, key, ret, awaits) == [s |-> s, key |-> key, ret |-> ret, awaits |-> awaits]

\* the function has not returned yet
Pending == [pending |-> Null]

\* locationFromCache that asks the GeoIP reader whatever the cache answered
locationAlwaysLooksUp(g, key, normalizedIp) ==
    Part(g, key, Pending, <<Awaiting("location", key, normalizedIp, "", Null)>>)

\* getLocationFromIp once cacheService.get has answered
locationFromCache(g, key, normalizedIp) ==
    IF truthy(g.ret)
    THEN Part(g, key, Value(g.ret), <<>>)
    ELSE Part(g, key, Pending, <<Awaiting("location", key, normalizedIp, "", Null)>>)

\* getLocationFromIp, up to its return or to await geoipService.getLocationByIp
getLocationFromIp(s, ip) ==
    IF ~isValidIpAddress(ip)
    THEN Part(s, Null, Value(VNull), <<>>)
    ELSE locationFromCache(get(s, LOCATION_CACHE_PREFIX \o normalizeIpAddress(ip)),
                           LOCATION_CACHE_PREFIX \o normalizeIpAddress(ip),
                           normalizeIpAddress(ip))

\* getLocationFromIp from the answer of the lookup on: null for no location
\* and in the catch block, else the location is enhanced, cached and returned
locationResolved(s, p, outcome, country) ==
    IF outcome # "found"
    THEN [s EXCEPT !.ret = VNull]
    ELSE [set(s, p.key, enhanceLocationData(locationData(p.arg), country),
              LOCATION_CACHE_TTL)
            EXCEPT !.ret = enhanceLocationData(locationData(p.arg), country)]

\* the cache key of a configuration
configKey(prefix, code, configType) ==
    IF configType # "" THEN prefix \o code \o ":" \o configType ELSE prefix \o code

\* a configuration as the database has it
VConfig == VObj(<<10>>, <<VStr(2)>>)

\* getRegionConfigurations and getCountryConfigurations once cacheService.get
\* has answered
configFromCache(g, kind, key, code, configType, then) ==
    IF truthy(g.ret)
    THEN Part(g, key, Value(g.ret), <<>>)
    ELSE Part(g, key, Pending, <<Awaiting(kind, key, code, configType, then)>>)

\* getRegionConfigurations, up to its return or to await Region.findOne;
\* configType "" is no configType
getRegionConfigurations(s, regionCode, configType, then) ==
    IF regionCode = ""
    THEN Part(s, Null, Value(VNull), <<>>)
    ELSE configFromCache(get(s, configKey(REGION_CONFIG_CACHE_PREFIX, regionCode, configType)),
                         "region",
                         configKey(REGION_CONFIG_CACHE_PREFIX, regionCode, configType),
                         regionCode, configType, then)

\* what the database answers to getRegionConfigurations: the region is not
\* there, the query throws, the region has no configuration (null), or it
\* has one
RegionOutcomes == {"notFound", "throws", "null", "configs"}

\* getCountryConfigurations from the return of getRegionConfigurations on:
\* what it got is cached under the key of the country and returned
countryCaches(s, key, regionConfigs) ==
    [set(s, key, regionConfigs, CONFIG_CACHE_TTL) EXCEPT !.ret = regionConfigs]

\* getRegionConfigurations from the answer of the database on, and for a call
\* made by getCountryConfigurations the rest of that function
regionCached(s, p) ==
    IF p.then = Null THEN s ELSE countryCaches(s, p.then, s.ret)

regionResolved(s, p, outcome) ==
    regionCached(CASE outcome \in {"notFound", "throws"} -> [s EXCEPT !.ret = VNull]
                   [] outcome = "null" ->
                        [set(s, p.key, VNull, CONFIG_CACHE_TTL) EXCEPT !.ret = VNull]
                   [] outcome = "configs" ->
                        [set(s, p.key, VConfig, CONFIG_CACHE_TTL) EXCEPT !.ret = VConfig],
                 p)

\* getCountryConfigurations, up to its return or to await Country.findOne
getCountryConfigurations(s, countryCode, configType) ==
    IF countryCode = ""
    THEN Part(s, Null, Value(VNull), <<>>)
    ELSE configFromCache(get(s, configKey(COUNTRY_CONFIG_CACHE_PREFIX, countryCode, configType)),
                         "country",
                         configKey(COUNTRY_CONFIG_CACHE_PREFIX, countryCode, configType),
                         countryCode, configType, Null)

\* what the database answers to getCountryConfigurations: no country or a
\* country without region, a throw, or a country with its region
CountryDbOutcomes == {"notFound", "throws", "found"}

\* getCountryConfigurations once the nested getRegionConfigurations has come
\* to its return or to its await
countryAfterRegion(r, p) ==
    IF r.awaits = <<>>
    THEN Part(countryCaches(r.s, p.key, r.ret.value), p.key, Value(r.ret.value), <<>>)
    ELSE r

\* getCountryConfigurations from the answer of the database on
countryResolved(s, p, outcome, regionCode) ==
    IF outcome # "found"
    THEN Part([s EXCEPT !.ret = VNull], p.key, Value(VNull), <<>>)
    ELSE countryAfterRegion(getRegionConfigurations(s, regionCode, p.type, p.key), p)

\* clearCache: one call of deletePattern, its count added to clearedCount
clearPrefix(s, prefix, clearedCount) ==
    [deletePattern(s, Pattern(TRUE, "^" \o prefix, "")) EXCEPT !.ret = clearedCount + @]

clearLocation(s, type) ==
    IF type \in {"location", "all"}
    THEN clearPrefix(s, LOCATION_CACHE_PREFIX, s.ret)
    ELSE s

clearCountry(s) == clearPrefix(s, COUNTRY_CONFIG_CACHE_PREFIX, s.ret)

\* clearConfig that forgets the configurations of the countries
clearConfigRegionOnly(s, type) ==
    IF type \in {"config", "all"}
    THEN clearPrefix(s, REGION_CONFIG_CACHE_PREFIX, s.ret)
    ELSE s

clearConfig(s, type) ==
    IF type \in {"config", "all"}
    THEN clearCountry(clearPrefix(s, REGION_CONFIG_CACHE_PREFIX, s.ret))
    ELSE s

Undefined == "undefined"

\* geolocation clearCache(type = 'all'); Undefined is a call without argument
clearCache(s, typeArg) ==
    clearConfig(clearLocation([s EXCEPT !.ret = 0],
                              IF typeArg = Undefined THEN "all" ELSE typeArg),
                IF typeArg = Undefined THEN "all" ELSE typeArg)

\* history: the record of a call of the geolocation service
GeoCall(op, key, arg, ret, s) ==
    [op |-> op, key |-> key, value |-> VUndefined, ttl |-> 0, arg |-> arg,
     ret |-> ret, threw |-> FALSE, cbLog |-> s.cbLog, evLog |-> s.evLog,
     before |-> cache, gone |-> Gone(s), cbBy |-> s.cbBy]

\* the sequence without its i-th element
removeAt(seq, i) == SubSeq(seq, 1, i - 1) \o SubSeq(seq, i + 1, Len(seq))

(* The arguments the geolocation service is called with *)

IpArgs == {"10.0.0.1", "010.00.0.01", "2001:db8::1", "10.0.0.256", " 10.0.0.1"}
RegionCodes == {"", "EU"}
CountryCodes == {"", "DE"}
ConfigTypes == {"", "drm"}
ClearTypes == {"location", "config", "all", Undefined, "session"}

\* keys of the shared cache that are not the geolocation service's
OtherKeys == {"session:1", "x:geolocation:location:10.0.0.1"}

GetLocationFromIp ==
    /\ PublicCall
    /\ Len(inflight) < MaxInflight
    /\ \E ip \in IpArgs :
         \E r \in {getLocationFromIp(St, ip)} :
           /\ CommitCache(r.s, GeoCall("getLocationFromIp", r.key, [ip |-> ip], r.ret, r.s))
           /\ inflight' = inflight \o r.awaits

\* geoipService.getLocationByIp has answered: getLocationFromIp goes on
LookupResolves ==
    /\ ~exited
    /\ \E i \in DOMAIN inflight, outcome \in LookupOutcomes, country \in CountryOutcomes :
         /\ inflight[i].kind = "location"
         /\ \E s \in {locationResolved(St, inflight[i], outcome, country)} :
              CommitCache(s, GeoCall("getLocationByIp", inflight[i].key,
                                     [lookup |-> outcome, ip |-> inflight[i].arg],
                                     Value(s.ret), s))
         /\ inflight' = removeAt(inflight, i)
    /\ UNCHANGED nOps

GetRegionConfigurations ==
    /\ PublicCall
    /\ Len(inflight) < MaxInflight
    /\ \E regionCode \in RegionCodes, configType \in ConfigTypes :
         \E r \in {getRegionConfigurations(St, regionCode, configType, Null)} :
           /\ CommitCache(r.s, GeoCall("getRegionConfigurations", r.key,
                                       [code |-> regionCode, type |-> configType],
                                       r.ret, r.s))
           /\ inflight' = inflight \o r.awaits

\* the database has answered getRegionConfigurations
RegionResolves ==
    /\ ~exited
    /\ \E i \in DOMAIN inflight, outcome \in RegionOutcomes :
         /\ inflight[i].kind = "region"
         /\ \E s \in {regionResolved(St, inflight[i], outcome)} :
              CommitCache(s, GeoCall("Region.findOne", inflight[i].key,
                                     [db |-> outcome, code |-> inflight[i].arg],
                                     Value(s.ret), s))
         /\ inflight' = removeAt(inflight, i)
    /\ UNCHANGED nOps

GetCountryConfigurations ==
    /\ PublicCall
    /\ Len(inflight) < MaxInflight
    /\ \E countryCode \in CountryCodes, configType \in ConfigTypes :
         \E r \in {getCountryConfigurations(St, countryCode, configType)} :
           /\ CommitCache(r.s, GeoCall("getCountryConfigurations", r.key,
                                       [code |-> countryCode, type |-> configType],
                                       r.ret, r.s))
           /\ inflight' = inflight \o r.awaits

\* the database has answered getCountryConfigurations
CountryResolves ==
    /\ ~exited
    /\ \E i \in DOMAIN inflight, outcome \in CountryDbOutcomes,
          regionCode \in RegionCodes \ {""} :
         /\ inflight[i].kind = "country"
         /\ \E r \in {countryResolved(St, inflight[i], outcome, regionCode)} :
              /\ CommitCache(r.s, GeoCall("Country.findOne", inflight[i].key,
                                          [db |-> outcome, code |-> inflight[i].arg],
                                          r.ret, r.s))
              /\ inflight' = removeAt(inflight, i) \o r.awaits
    /\ UNCHANGED nOps

ClearCache ==
    /\ PublicCall
    /\ \E type \in ClearTypes :
         \E s \in {clearCache(St, type)} :
           Commit(s, GeoCall("clearCache", Null, [type |-> type], Count(s.ret), s))

\* another module of the application keeps a value in the shared cache
SetOther ==
    /\ PublicCall
    /\ \E key \in OtherKeys :
         \E s \in {set(St, key, VSmall, Omitted)} :
           Commit(s, Call("set", key, VSmall, Omitted, Null, s))

\* half an hour passes
Elapse ==
    /\ now < MaxHalfHours * CONFIG_CACHE_TTL
    /\ now' = now + CONFIG_CACHE_TTL
    /\ UNCHANGED <<nodes, cache, head, tail, currentSize, maxSize, defaultTTL,
                   stats, evictionCallback, pruneIntervalId, exited, inflight,
                   appVars, lru, call, nOps>>

\* the cache is the singleton of the module: new CacheService()
InitGeo == Init /\ maxSize = DefaultMaxSize

NextGeo ==
    \/ GetLocationFromIp
    \/ LookupResolves
    \/ GetRegionConfigurations
    \/ RegionResolves
    \/ GetCountryConfigurations
    \/ CountryResolves
    \/ ClearCache
    \/ SetOther
    \/ Elapse
    \/ TimerPrune

SpecGeo == InitGeo /\ [][NextGeo]_vars

-----------------------------------------------------------------------------
(* The GeoIP service (services/geoip.service.js). Its Map keeps one entry   *)
(* per address, in the order of insertion; an entry that is set again has   *)
(* been deleted first, so that order is also the order of the timestamps.   *)
(* The code of the cache looks at nothing of an entry but its timestamp,    *)
(* so the Map is kept as the run lengths of its timestamps:                 *)
(* <<[timestamp |-> 0, count |-> 3]>> is three addresses stored at time 0.  *)

CACHE_TTL == 3600000
CACHE_MAX_SIZE == 1000

\* time passes once for the GeoIP service: while now is below this
MaxGeoipWaits == 1

RECURSIVE mapSize(_)
\* cache.size
mapSize(c) == IF c = <<>> THEN 0 ELSE Head(c).count + mapSize(Tail(c))

\* cache.set(normalizedIp, {data, timestamp: Date.now()}) for an address
\* that is not in the Map
mapSet(c, t) ==
    IF c # <<>> /\ c[Len(c)].timestamp = t
    THEN [c EXCEPT ![Len(c)].count = @ + 1]
    ELSE Append(c, [timestamp |-> t, count |-> 1])

\* cache.delete(normalizedIp) for an address of the i-th run
mapDelete(c, i) ==
    IF c[i].count = 1
    THEN SubSeq(c, 1, i - 1) \o SubSeq(c, i + 1, Len(c))
    ELSE [c EXCEPT ![i].count = @ - 1]

\* cleanupCache: the loop that removes the expired entries
removeExpired(c, t) == SelectSeq(c, LAMBDA r : ~(t > r.timestamp + CACHE_TTL))

RECURSIVE removeOldest(_, _)
\* cleanupCache: the entries sorted by timestamp, the first n of them deleted
removeOldest(c, n) ==
    IF n = 0 \/ c = <<>> THEN c
    ELSE IF Head(c).count <= n THEN removeOldest(Tail(c), n - Head(c).count)
         ELSE <<[Head(c) EXCEPT !.count = @ - n]>> \o Tail(c)

\* cleanupCache: if (cache.size > CACHE_MAX_SIZE), with cache.size given
trimToMax(c, size) ==
    IF size > CACHE_MAX_SIZE THEN removeOldest(c, size - CACHE_MAX_SIZE) ELSE c

\* cleanupCache
cleanupCache(c, t) == trimToMax(removeExpired(c, t), mapSize(removeExpired(c, t)))

\* getLocationByIp: if (cache.size % 100 === 0) cleanupCache()
cleanupPeriodically(c, t) == IF mapSize(c) % 100 = 0 THEN cleanupCache(c, t) ELSE c

\* getLocationByIp from the call of reader.get on: found is what the reader
\* answers for the address
lookUp(c, t, found) == IF found THEN cleanupPeriodically(mapSet(c, t), t) ELSE c

\* getLocationByIp for a valid address that is not in the Map
getLocationByIpNew(c, t, found) == lookUp(c, t, found)

\* getLocationByIp for a valid address that is in the Map, in the i-th run:
\* answered from the Map while Date.now() < timestamp + CACHE_TTL, else the
\* entry is deleted and the reader is asked
getLocationByIpCached(c, i, t, found) ==
    IF t < c[i].timestamp + CACHE_TTL THEN c
    ELSE lookUp(mapDelete(c, i), t, found)

\* the steps of the GeoIP service leave the rest alone
GeoipStep ==
    UNCHANGED <<nodes, cache, head, tail, currentSize, maxSize, defaultTTL, stats,
                evictionCallback, pruneIntervalId, exited, inflight, authVars, lru,
                call, nOps>>

\* getLocationByIp(ip), ip an address the Map does not hold
GeoipLookupNew ==
    /\ \E found \in BOOLEAN :
         geoipCache' = getLocationByIpNew(geoipCache, now, found)
    /\ UNCHANGED now
    /\ GeoipStep

\* getLocationByIp(ip), ip an address the Map holds
GeoipLookupCached ==
    /\ \E i \in DOMAIN geoipCache, found \in BOOLEAN :
         geoipCache' = getLocationByIpCached(geoipCache, i, now, found)
    /\ UNCHANGED now
    /\ GeoipStep

\* time passes: a millisecond, or the TTL and a millisecond
GeoipWait ==
    /\ now < MaxGeoipWaits
    /\ \E d \in {1, CACHE_TTL + 1} : now' = now + d
    /\ UNCHANGED geoipCache
    /\ GeoipStep

NextGeoip ==
    \/ GeoipLookupNew
    \/ GeoipLookupCached
    \/ GeoipWait

SpecGeoip == Init /\ [][NextGeoip]_vars

-----------------------------------------------------------------------------
(* GET /api/geolocation/detect. The route is registered with                *)
(* routeCache({ ttl: 300000 }) in front of the controller: the middleware   *)
(* answers from the shared cache when it holds a response under the key of  *)
(* the request, and otherwise lets the controller answer and stores what it *)
(* sends. A request is told by its x-forwarded-for header ("" when it has   *)
(* none), the address of its connection, its ip query parameter ("" when it *)
(* has none), whether it carries cache-control: no-cache, and the location  *)
(* override of its session (VUndefined when it has none); it has no         *)
(* x-real-ip header.                                                        *)

\* routeCache({ ttl: 300000 }) on the route
DETECT_TTL == 300000

VNum(n) == Val("number", n, <<>>, <<>>)
VFalse == Val("boolean", 0, <<>>, <<>>)

RECURSIVE indexOfFrom(_, _, _)
\* the first position at or after i where sub starts in str, 0 for none
indexOfFrom(str, sub, i) ==
    IF i + Len(sub) - 1 > Len(str) THEN 0
    ELSE IF SubSeq(str, i, i + Len(sub) - 1) = sub THEN i
         ELSE indexOfFrom(str, sub, i + 1)

\* String.prototype.includes
includes(str, sub) == indexOfFrom(str, sub, 1) # 0

\* what follows the first sub in str, up to the next sub
upToNext(rest, sub) ==
    IF includes(rest, sub) THEN SubSeq(rest, 1, indexOfFrom(rest, sub, 1) - 1) ELSE rest

\* str.split(sub)[1], for a str that includes sub
secondPart(str, sub) ==
    upToNext(SubSeq(str, indexOfFrom(str, sub, 1) + Len(sub), Len(str)), sub)

\* parseIpFromRequest: the first of the headers and addresses that is there
firstAddress(req) ==
    IF req.xff # "" /\ split(req.xff, ",")[1] # "" THEN split(req.xff, ",")[1]
    ELSE IF req.remote # "" THEN req.remote
         ELSE "127.0.0.1"

\* parseIpFromRequest: ::ffff:127.0.0.1 -> 127.0.0.1
cleanUpMapped(ip) == IF includes(ip, "::ffff:") THEN secondPart(ip, "::ffff:") ELSE ip

\* geoip.utils parseIpFromRequest
parseIpFromRequest(req) == cleanUpMapped(firstAddress(req))

\* req.originalUrl of a request to the route
originalUrl(req) ==
    "/api/geolocation/detect" \o (IF req.queryIp # "" THEN "?ip=" \o req.queryIp ELSE "")

\* _generateCacheKey that tells the clients apart by their address
generateCacheKeyPerClient(req) == "GET:" \o originalUrl(req) \o ":" \o parseIpFromRequest(req)

\* _generateCacheKey, for a GET request
generateCacheKey(req) == "GET:" \o originalUrl(req)

\* _shouldCache, for a GET request
shouldCache(req) == ~req.noCache

\* the body the controller sends with status 200
locationBody(location, source) ==
    VObj(<<7, 4>>, <<VTrue, VObj(<<8, 6>>, <<location, VStr(Len(source))>>)>>)

\* the body the controller sends with status 404
notFoundBody == VObj(<<7, 5>>, <<VFalse, VObj(<<7, 7>>, <<VStr(18), VStr(40)>>)>>)

\* what the middleware stores: { status: res.statusCode, data: data }
cachedResponse(status, data) == VObj(<<6, 4>>, <<VNum(status), data>>)

\* what the client receives: the status, the body and the X-Cache header
Response(status, data, xcache) == [status |-> status, data |-> data, xcache |-> xcache]

\* one part of the handling of a request: the cache it leaves, the response
\* if it was sent, and the lookup it waits for if it was not
Handled(s, response, awaits) == [s |-> s, response |-> response, awaits |-> awaits]

\* the res.json the middleware put in place: a 2xx response is stored under
\* the key of the request, and then sent. cacheKey is Null when the
\* middleware stepped aside.
jsonSent(s, cacheKey, status, data, xcache) ==
    Handled(IF cacheKey # Null /\ status >= 200 /\ status < 300
            THEN set(s, cacheKey, cachedResponse(status, data), DETECT_TTL)
            ELSE s,
            Response(status, data, xcache), <<>>)

\* detectLocation from the answer of getLocationFromIp on
detectAnswer(s, req, cacheKey, xcache, location) ==
    IF ~truthy(location)
    THEN jsonSent(s, cacheKey, 404, notFoundBody, xcache)
    ELSE IF truthy(req.override)
         THEN jsonSent(s, cacheKey, 200, locationBody(req.override, "override"), xcache)
         ELSE jsonSent(s, cacheKey, 200, locationBody(location, "geoip"), xcache)

\* detectLocation once getLocationFromIp has returned or waits for the lookup
detectLocated(p, req, cacheKey, xcache) ==
    IF p.awaits = <<>>
    THEN detectAnswer(p.s, req, cacheKey, xcache, p.ret.value)
    ELSE Handled(p.s, Pending,
                 <<[p.awaits[1] EXCEPT
                      !.then = [req |-> req, cacheKey |-> cacheKey, xcache |-> xcache]]>>)

\* geolocationController.detectLocation
detectLocation(s, req, cacheKey, xcache) ==
    detectLocated(getLocationFromIp(s, IF req.queryIp # "" THEN req.queryIp
                                       ELSE parseIpFromRequest(req)),
                  req, cacheKey, xcache)

\* cacheMiddleware once cacheService.get has answered
cacheAnswered(g, req, cacheKey) ==
    IF truthy(g.ret)
    THEN Handled(g, Response(g.ret.items[1].n, g.ret.items[2], "HIT"), <<>>)
    ELSE detectLocation(g, req, cacheKey, "MISS")

\* the middleware that cacheMiddleware(options) returns, with the controller
\* behind it
cacheMiddleware(s, req) ==
    IF ~shouldCache(req)
    THEN detectLocation(s, req, Null, "")
    ELSE cacheAnswered(get(s, generateCacheKey(req)), req, generateCacheKey(req))

\* the lookup has answered: getLocationFromIp returns and the controller goes on
detectResolved(s, p) ==
    detectAnswer(s, p.then.req, p.then.cacheKey, p.then.xcache, s.ret)

(* The requests made to the route *)

OverrideLocation == VObj(<<11>>, <<VStr(2)>>)

Request(xff, remote, queryIp, noCache, override) ==
    [xff |-> xff, remote |-> remote, queryIp |-> queryIp, noCache |-> noCache,
     override |-> override]

DetectRequests ==
    {Request("", "10.0.0.1", "", FALSE, VUndefined),
     Request("", "::ffff:10.0.0.1", "", FALSE, VUndefined),
     Request("", "2001:db8::1", "", FALSE, VUndefined),
     Request("2001:db8::1,10.0.0.9", "10.0.0.9", "", FALSE, VUndefined),
     Request("", "2001:db8::1", "", TRUE, VUndefined),
     Request("", "10.0.0.1", "", FALSE, OverrideLocation),
     Request("", "2001:db8::1", "10.0.0.1", FALSE, VUndefined)}

DetectRequest ==
    /\ PublicCall
    /\ Len(inflight) < MaxInflight
    /\ \E req \in DetectRequests :
         \E r \in {cacheMiddleware(St, req)} :
           /\ CommitCache(r.s, GeoCall("detect", Null, [req |-> req], r.response, r.s))
           /\ inflight' = inflight \o r.awaits

\* geoipService.getLocationByIp has answered a request that waited for it
DetectResolves ==
    /\ ~exited
    /\ \E i \in DOMAIN inflight, outcome \in LookupOutcomes, country \in CountryOutcomes :
         /\ inflight[i].kind = "location"
         /\ \E r \in {detectResolved(locationResolved(St, inflight[i], outcome, country),
                                     inflight[i])} :
              CommitCache(r.s, GeoCall("detect", Null, [req |-> inflight[i].then.req],
                                       r.response, r.s))
         /\ inflight' = removeAt(inflight, i)
    /\ UNCHANGED nOps

NextDetect ==
    \/ DetectRequest
    \/ DetectResolves
    \/ Elapse

SpecDetect == InitGeo /\ [][NextDetect]_vars

-----------------------------------------------------------------------------
(* The auth service. authenticate and refreshToken are async functions:     *)
(* each await hands control back, and the calls that are under way go on    *)
(* in any order. A document a call has read is the call's own copy: what    *)
(* the call decides from it is decided from the values read, while          *)
(* updateOne and save write to the collection. A lockUntil of 0 is a        *)
(* document without lockUntil.                                              *)

MAX_LOGIN_ATTEMPTS == 5
LOCK_TIME == 3600000
REFRESH_EXPIRES_MS == 604800000

\* the calls of authenticate, and of refreshToken, that are made
MaxLogins == 6
MaxRefreshes == 3

\* the logins that issue the refresh tokens the calls of refreshToken present
MaxIssuers == 2

\* the times the clock is moved past a lock
MaxLockWaits == 1

\* User.isLocked
isLocked(doc, t) == doc.lockUntil # 0 /\ doc.lockUntil > t

\* User.incrementLoginAttempts: the update is worked out from the copy the
\* call has read, and $inc works on the document in the collection
incrementLoginAttempts(db, doc, t) ==
    IF doc.lockUntil # 0 /\ doc.lockUntil < t
    THEN [db EXCEPT !.loginAttempts = 1, !.lockUntil = 0]
    ELSE IF doc.loginAttempts + 1 >= MAX_LOGIN_ATTEMPTS /\ ~isLocked(doc, t)
         THEN [db EXCEPT !.loginAttempts = @ + 1, !.lockUntil = t + LOCK_TIME]
         ELSE [db EXCEPT !.loginAttempts = @ + 1]

\* User.resetLoginAttempts
resetLoginAttempts(db) == [db EXCEPT !.loginAttempts = 0, !.lockUntil = 0]

\* Token.isExpired, Token.isRevoked, Token.isActive
tokenIsExpired(doc, t) == t >= doc.expiresAt
tokenIsRevoked(doc) == doc.revoked
tokenIsActive(doc, t) == ~tokenIsRevoked(doc) /\ ~tokenIsExpired(doc, t)

\* Token.revoke(ip, replacementToken): the copy is changed and saved
tokenRevoke(coll, token, replacementToken) ==
    [coll EXCEPT ![token].revoked = TRUE, ![token].replacedByToken = replacementToken]

\* the token _generateRefreshToken signs: one that was not there before
newToken(coll) == "t" \o ToString(Cardinality(DOMAIN coll) + 1)

\* _generateRefreshToken: Token.create
generateRefreshToken(coll, t) ==
    (newToken(coll) :> [revoked |-> FALSE, replacedByToken |-> Null,
                        expiresAt |-> t + REFRESH_EXPIRES_MS]) @@ coll

\* the copy a call holds before it has read any document
NoUser == [loginAttempts |-> 0, lockUntil |-> 0, active |-> FALSE]
NoToken == [revoked |-> FALSE, replacedByToken |-> Null, expiresAt |-> 0]

One(x) == SetToBag({x})

\* history: the step made by a call of the auth service, and how it ended
AuthCall(op, arg, outcome) ==
    GeoCall(op, Null, arg, [outcome |-> outcome], St)

AuthStep ==
    UNCHANGED <<nodes, cache, head, tail, currentSize, maxSize, defaultTTL, stats,
                evictionCallback, pruneIntervalId, now, exited, inflight, geoipCache,
                lru, nOps>>

\* authenticate(username, password, ipAddress) is called: User.findByLogin
\* is awaited. valid: the password is the account's.
AuthStart ==
    /\ authLog.logins < MaxLogins
    /\ \E valid \in BOOLEAN :
         /\ logins' = logins (+) One([phase |-> "find", valid |-> valid, doc |-> NoUser])
         /\ call' = AuthCall("authenticate", [valid |-> valid], "awaits")
    /\ authLog' = [authLog EXCEPT !.logins = @ + 1]
    /\ UNCHANGED <<user, tokens, refreshes>>
    /\ AuthStep

\* findByLogin has answered: the call goes on to user.comparePassword,
\* unless the document it read is locked or inactive
AuthFound ==
    /\ \E p \in BagToSet(logins) :
         /\ p.phase = "find"
         /\ IF isLocked(user, now) \/ ~user.active
            THEN /\ logins' = logins (-) One(p)
                 /\ call' = AuthCall("authenticate", [valid |-> p.valid],
                                     IF isLocked(user, now) THEN "locked" ELSE "inactive")
            ELSE /\ logins' = (logins (-) One(p))
                                (+) One([p EXCEPT !.phase = "compare", !.doc = user])
                 /\ call' = AuthCall("authenticate", [valid |-> p.valid], "awaits")
    /\ UNCHANGED <<user, tokens, refreshes, authLog>>
    /\ AuthStep

\* comparePassword has answered: a wrong password is counted with
\* incrementLoginAttempts and the call throws; a right one resets the count,
\* and the call makes its tokens and returns
AuthCompared ==
    /\ \E p \in BagToSet(logins) :
         /\ p.phase = "compare"
         /\ logins' = logins (-) One(p)
         /\ IF ~p.valid
            THEN /\ user' = incrementLoginAttempts(user, p.doc, now)
                 /\ tokens' = tokens
                 /\ authLog' = [authLog EXCEPT
                                  !.failedChecks =
                                     IF p.doc.lockUntil # 0 /\ p.doc.lockUntil < now
                                     THEN 1 ELSE @ + 1]
                 /\ call' = AuthCall("comparePassword", [valid |-> FALSE], "invalid")
            ELSE /\ user' = resetLoginAttempts(user)
                 /\ tokens' = generateRefreshToken(tokens, now)
                 /\ authLog' = [authLog EXCEPT !.failedChecks = 0]
                 /\ call' = AuthCall("comparePassword", [valid |-> TRUE], "ok")
    /\ UNCHANGED refreshes
    /\ AuthStep

\* refreshToken(token, ipAddress) is called with a token that was issued:
\* jwt.verify accepts it and Token.findOne is awaited
RefreshStart ==
    /\ authLog.refreshes < MaxRefreshes
    /\ \E token \in DOMAIN tokens :
         /\ refreshes' = refreshes (+) One([phase |-> "find", token |-> token,
                                            doc |-> NoToken, newToken |-> Null])
         /\ call' = AuthCall("refreshToken", [token |-> token], "awaits")
    /\ authLog' = [authLog EXCEPT !.refreshes = @ + 1]
    /\ UNCHANGED <<user, tokens, logins>>
    /\ AuthStep

\* Token.findOne has answered: the call goes on to User.findById if the
\* document it read is active
RefreshFound ==
    /\ \E p \in BagToSet(refreshes) :
         /\ p.phase = "find"
         /\ IF ~tokenIsActive(tokens[p.token], now)
            THEN /\ refreshes' = refreshes (-) One(p)
                 /\ call' = AuthCall("refreshToken", [token |-> p.token], "invalid")
            ELSE /\ refreshes' = (refreshes (-) One(p))
                                   (+) One([p EXCEPT !.phase = "user", !.doc = tokens[p.token]])
                 /\ call' = AuthCall("refreshToken", [token |-> p.token], "awaits")
    /\ UNCHANGED <<user, tokens, logins, authLog>>
    /\ AuthStep

\* User.findById has answered: the new tokens are made, the refresh token
\* is stored, and Token.create is awaited
RefreshUser ==
    /\ \E p \in BagToSet(refreshes) :
         /\ p.phase = "user"
         /\ IF ~user.active
            THEN /\ refreshes' = refreshes (-) One(p)
                 /\ tokens' = tokens
                 /\ call' = AuthCall("refreshToken", [token |-> p.token], "inactive")
            ELSE /\ refreshes' = (refreshes (-) One(p))
                                   (+) One([p EXCEPT !.phase = "revoke",
                                                     !.newToken = newToken(tokens)])
                 /\ tokens' = generateRefreshToken(tokens, now)
                 /\ call' = AuthCall("refreshToken", [token |-> p.token], "awaits")
    /\ UNCHANGED <<user, logins, authLog>>
    /\ AuthStep

\* Token.create has answered: the old token is revoked and the call returns
\* the new ones
RefreshRevoked ==
    /\ \E p \in BagToSet(refreshes) :
         /\ p.phase = "revoke"
         /\ refreshes' = refreshes (-) One(p)
         /\ tokens' = tokenRevoke(tokens, p.token, p.newToken)
         /\ authLog' = [authLog EXCEPT !.used = @ (+) One(p.token)]
         /\ call' = GeoCall("refreshToken", Null, [token |-> p.token],
                            [outcome |-> "ok", refreshToken |-> p.newToken], St)
    /\ UNCHANGED <<user, logins>>
    /\ AuthStep

\* an hour and a millisecond pass: a lock set before is over
LockElapses ==
    /\ now < MaxLockWaits * (LOCK_TIME + 1)
    /\ now' = now + LOCK_TIME + 1
    /\ UNCHANGED <<nodes, cache, head, tail, currentSize, maxSize, defaultTTL,
                   stats, evictionCallback, pruneIntervalId, exited, inflight,
                   appVars, lru, call, nOps>>

\* the calls of authenticate, in any interleaving, and the clock
NextAuth ==
    \/ AuthStart
    \/ AuthFound
    \/ AuthCompared
    \/ LockElapses

SpecAuth == Init /\ [][NextAuth]_vars

\* the calls of authenticate made one after the other: a call is made when
\* the one before has returned or thrown
NextAuthSequential ==
    \/ logins = EmptyBag /\ AuthStart
    \/ AuthFound
    \/ AuthCompared
    \/ LockElapses

SpecAuthSequential == Init /\ [][NextAuthSequential]_vars

\* a login with the right password, of which MaxIssuers are made: it issues
\* a refresh token
IssuingLogin ==
    /\ authLog.logins < MaxIssuers
    /\ AuthStart
    /\ call'.arg.valid

\* the calls of refreshToken, in any interleaving, with the tokens that
\* logins have issued
NextRefresh ==
    \/ IssuingLogin
    \/ AuthFound
    \/ AuthCompared
    \/ RefreshStart
    \/ RefreshFound
    \/ RefreshUser
    \/ RefreshRevoked

SpecRefresh == Init /\ [][NextRefresh]_vars

\* the same with the calls of refreshToken made one after the other
NextRefreshSequential ==
    \/ IssuingLogin
    \/ AuthFound
    \/ AuthCompared
    \/ refreshes = EmptyBag /\ RefreshStart
    \/ RefreshFound
    \/ RefreshUser
    \/ RefreshRevoked

SpecRefreshSequential == Init /\ [][NextRefreshSequential]_vars

-----------------------------------------------------------------------------
(* What the claims are stated with *)

RECURSIVE walkNext(_, _, _)
\* the keys met from Node k along .next, at most fuel of them
walkNext(ns, k, fuel) ==
    IF k = Null \/ fuel = 0 \/ k \notin DOMAIN ns THEN <<>>
    ELSE <<k>> \o walkNext(ns, ns[k].next, fuel - 1)

\* the recency list, from this.head to the tail
recencyList(s) == walkNext(s.nodes, s.head, Cardinality(Keys) + 1)

RECURSIVE SumSizes(_, _)
\* the sum of the sizes of the Nodes of the keys of seq
SumSizes(ns, seq) ==
    IF seq = <<>> THEN 0 ELSE ns[Head(seq)].size + SumSizes(ns, Tail(seq))

NoDuplicates(seq) == \A i, j \in DOMAIN seq : seq[i] = seq[j] => i = j

\* this step is a public call of op
IsCall(op) == nOps' = nOps + 1 /\ call'.op = op

-----------------------------------------------------------------------------
\* C1: size invariant. After any sequence of public calls currentSize, which
\* is what getStats reports, is exactly the sum of the sizes of the entries
\* whose keys are in the key index.
C1_SizeInvariant ==
    /\ currentSize = SumSizes(nodes, keys(St))
    /\ getStats(St).currentSize = SumSizes(nodes, keys(St))

\* entries of 2 bytes are left after an eviction and a delete have happened
C1_Witness ==
    /\ stats.evictions > 0
    /\ stats.deletes > 0
    /\ Len(cache) > 0
    /\ currentSize = 4

\* C2: existence invariant. A key is in the key index iff its entry is met
\* on the walk of the recency list from head to tail; the number of keys is
\* getStats().size and the number of list nodes; head and tail are null
\* exactly when the key index is empty.
C2_ExistenceInvariant ==
    /\ Range(recencyList(St)) = Range(keys(St))
    /\ NoDuplicates(recencyList(St))
    /\ Len(recencyList(St)) = Len(keys(St))
    /\ getStats(St).size = Len(keys(St))
    /\ NoDuplicates(keys(St))
    /\ (head = Null) <=> (keys(St) = <<>>)
    /\ (tail = Null) <=> (keys(St) = <<>>)
    /\ keys(St) # <<>> => tail = recencyList(St)[Len(recencyList(St))]

\* two entries are linked after the tail of a longer list has been removed
C2_Witness ==
    /\ call.op = "delete"
    /\ call.ret = Bool(TRUE)
    /\ Len(cache) = 2
    /\ call.key \notin Range(cache)
    /\ tail = cache[1]

-----------------------------------------------------------------------------
(* The state right after a set or a setMaxSize has done everything but its *)
(* evictions, seen from the state before the call: the recency order by    *)
(* the time of the last set or successful get (most recent first), and the *)
(* size and the value of each entry.                                       *)

\* the key set by this step is (again) an entry: the Node was constructed
Inserted == call'.op = "set" /\ calculateSize(call'.value).ok

OrderBeforeEviction ==
    IF call'.op = "set"
    THEN (IF Inserted THEN <<call'.key>> ELSE <<>>) \o Without(lru, call'.key)
    ELSE lru

SizeBeforeEviction(k) ==
    IF Inserted /\ k = call'.key THEN calculateSize(call'.value).size
    ELSE nodes[k].size

ValueBeforeEviction(k) ==
    IF Inserted /\ k = call'.key THEN call'.value ELSE nodes[k].value

RECURSIVE SumBeforeEviction(_)
SumBeforeEviction(seq) ==
    IF seq = <<>> THEN 0
    ELSE SizeBeforeEviction(Head(seq)) + SumBeforeEviction(Tail(seq))

\* the n least recently used keys, the least recently used first
LruRun(order, n) == [i \in 1..n |-> order[Len(order) + 1 - i]]

\* what is left of the budget's excess once the n least recently used are gone
SizeWithout(order, n) == SumBeforeEviction(SubSeq(order, 1, Len(order) - n))

\* the length of the shortest run from the least recently used end whose
\* removal brings the size to at most limit (all entries if none does)
ShortestRun(order, limit) ==
    IF \E n \in 0..Len(order) : SizeWithout(order, n) <= limit
    THEN CHOOSE n \in 0..Len(order) :
            /\ SizeWithout(order, n) <= limit
            /\ \A m \in 0..(n - 1) : SizeWithout(order, m) > limit
    ELSE Len(order)

\* C3: LRU eviction order. Whenever set or setMaxSize evicts, the entries
\* removed are exactly the shortest run from the least recently used end of
\* the recency order (by last set or last successful get) whose removal
\* brings currentSize to at most maxSize; none is evicted while currentSize
\* is at most maxSize.
C3_LruEvictionOrder ==
    [][(IsCall("set") \/ IsCall("setMaxSize")) =>
         /\ call'.evLog = LruRun(OrderBeforeEviction,
                                 ShortestRun(OrderBeforeEviction, maxSize'))
         /\ SumBeforeEviction(OrderBeforeEviction) <= maxSize' => call'.evLog = <<>>
         /\ Range(keys(St)') = Range(OrderBeforeEviction) \ Range(call'.evLog)]_vars

\* a, then b were set, a was read, and the set of c evicted b, not a
C3_Witness ==
    /\ call.op = "set"
    /\ call.key = "c"
    /\ call.evLog = <<"b">>
    /\ cache = <<"a", "c">>
    /\ stats.hits = 1

\* C4: capacity bound. After every set and every setMaxSize (maxSize >= 0)
\* currentSize <= maxSize, also when the eviction observer throws.
C4_CapacityBound ==
    (call.op \in {"set", "setMaxSize"} /\ maxSize >= 0) => currentSize <= maxSize

\* a set evicted two entries and the observer threw on the first of them
C4_Witness ==
    /\ call.op = "set"
    /\ evictionCallback = "throwsOnA"
    /\ Len(call.evLog) = 2
    /\ call.cbLog[1][1] = "a"
    /\ currentSize > 0

\* C5: eviction callback guarantee. While an observer is registered, each
\* entry the eviction loop removes is reported to it exactly once, with its
\* key and value; an observer that throws does not make the call throw, and
\* the evictions still needed are made and reported.
C5_EvictionCallback ==
    [][(nOps' = nOps + 1) =>
         /\ evictionCallback # Null /\ call'.op \in {"set", "setMaxSize"} =>
              /\ call'.cbLog = [i \in DOMAIN call'.evLog |->
                                  <<call'.evLog[i], ValueBeforeEviction(call'.evLog[i])>>]
              /\ call'.evLog = LruRun(OrderBeforeEviction,
                                      ShortestRun(OrderBeforeEviction, maxSize'))
              /\ ~call'.threw
              /\ call'.op = "set" => call'.ret = Bool(Inserted)
         /\ evictionCallback # Null /\ call'.op = "setMany" =>
              /\ [i \in DOMAIN call'.cbLog |-> call'.cbLog[i][1]] = call'.evLog
              /\ ~call'.threw
         /\ stats'.evictions = stats.evictions + Len(call'.evLog)
         /\ evictionCallback = Null /\ call'.op # "onEviction" => call'.cbLog = <<>>]_vars

\* the observer threw on a, and the eviction of b in the same set was made
\* and reported with the value of b
C5_Witness ==
    /\ call.op = "set"
    /\ call.ret = Bool(TRUE)
    /\ evictionCallback = "throwsOnA"
    /\ call.evLog = <<"a", "b">>
    /\ call.cbLog = << <<"a", VSmall>>, <<"b", VSmall>> >>

\* C6: a failed set leaves the state unchanged. Whenever set returns false
\* because the construction of the entry throws, the key index, the recency
\* list, currentSize and the counters are what they were before the call,
\* also for a key that was present.
C6_FailedSetUnchanged ==
    [][(IsCall("set") /\ call'.ret = Bool(FALSE)) =>
         /\ cache' = cache
         /\ nodes' = nodes
         /\ recencyList(St)' = recencyList(St)
         /\ currentSize' = currentSize
         /\ stats' = stats]_vars

\* the index of the first entry of a setMany batch whose set fails, or 0
FirstFailing(list) ==
    IF \E i \in DOMAIN list : ~calculateSize(list[i][2]).ok
    THEN CHOOSE i \in DOMAIN list :
            /\ ~calculateSize(list[i][2]).ok
            /\ \A j \in 1..(i - 1) : calculateSize(list[j][2]).ok
    ELSE 0

\* C7: setMany is not atomic. The entries are applied in order; when the set
\* of one fails, setMany stops there and returns false, the entries before
\* it stay committed and the entries after it are not applied.
C7_SetManyStopsAtFailure ==
    [][(IsCall("setMany") /\ call'.arg.entries.isObject /\ FirstFailing(call'.arg.entries.list) > 0) =>
         LET list == call'.arg.entries.list
             f == FirstFailing(list)
         IN  /\ call'.ret = Bool(FALSE)
             /\ \A j \in 1..(f - 1) :
                  list[j][1] \in Range(keys(St)') \cup Range(call'.evLog)
             /\ \A j \in (f + 1)..Len(list) :
                  /\ list[j][1] \in Range(cache') <=> list[j][1] \in Range(cache)
                  /\ stats'.sets = stats.sets + (f - 1)]_vars

\* C8: set returns true only if the value was set. Whenever set returns true
\* the key is in the cache when the call returns: at that instant has(key)
\* is true and get(key) yields the value, whatever the size and maxSize.
C8_SetTrueMeansPresent ==
    [][(IsCall("set") /\ call'.ret = Bool(TRUE)) =>
         /\ has(St', call'.key).ret = TRUE
         /\ get(St', call'.key).ret = call'.value]_vars

\* C9: get. On a present key that is not expired get returns the value,
\* makes the entry the head of the recency list and adds 1 to hits; on an
\* unknown key it returns absent and adds 1 to misses; on a present key whose
\* TTL has passed it removes the entry from index and list, takes its size
\* off currentSize, returns absent and adds exactly 1 to misses and 1 to
\* expirations, hits unchanged.
C9_GetContract ==
    [][IsCall("get") =>
         LET k == call'.key
         IN  IF k \notin Range(cache)
             THEN /\ call'.ret = Value(VUndefined)
                  /\ stats' = [stats EXCEPT !.misses = @ + 1]
                  /\ cache' = cache /\ nodes' = nodes /\ currentSize' = currentSize
                  /\ recencyList(St)' = recencyList(St)
             ELSE IF nodes[k].ttl > 0 /\ now > nodes[k].expiry
             THEN /\ call'.ret = Value(VUndefined)
                  /\ cache' = Without(cache, k)
                  /\ recencyList(St)' = Without(recencyList(St), k)
                  /\ currentSize' = currentSize - nodes[k].size
                  /\ stats'.misses = stats.misses + 1
                  /\ stats'.expirations = stats.expirations + 1
                  /\ stats'.hits = stats.hits
                  /\ stats'.sets = stats.sets /\ stats'.evictions = stats.evictions
             ELSE /\ call'.ret = Value(nodes[k].value)
                  /\ recencyList(St)' = <<k>> \o Without(recencyList(St), k)
                  /\ head' = k
                  /\ stats' = [stats EXCEPT !.hits = @ + 1]
                  /\ cache' = cache /\ currentSize' = currentSize]_vars

\* a get found its key expired and removed the entry, another entry is left
C9_Witness ==
    /\ call.op = "get"
    /\ call.key \in Range(call.before)
    /\ call.ret = Value(VUndefined)
    /\ stats.expirations = 1
    /\ stats.misses = 1
    /\ Len(cache) = 1

\* C10: recency asymmetry. has on a live entry leaves the recency order, and
\* so the order of the evictions to come, as it is; one get on a live entry
\* makes it the most recently used.
C10_RecencyAsymmetry ==
    [][LET k == call'.key
           live == k \in Range(cache) /\ ~(nodes[k].ttl > 0 /\ now > nodes[k].expiry)
       IN  /\ (IsCall("has") /\ live) =>
                /\ call'.ret = Bool(TRUE)
                /\ recencyList(St)' = recencyList(St)
                /\ lru' = lru
                /\ head' = head /\ tail' = tail /\ nodes' = nodes
           /\ (IsCall("get") /\ live) =>
                /\ recencyList(St)' = <<k>> \o Without(recencyList(St), k)
                /\ lru' = <<k>> \o Without(lru, k)
                /\ lru' = recencyList(St)']_vars

\* has found the least recently used of two entries live
C10_Witness ==
    /\ call.op = "has"
    /\ call.ret = Bool(TRUE)
    /\ Len(cache) = 2
    /\ tail = call.key
    /\ head # call.key

-----------------------------------------------------------------------------
\* the entry of k is in the index and its TTL has passed at the time now
Expired(k) == k \in Range(cache) /\ nodes[k].ttl > 0 /\ now > nodes[k].expiry

\* the entry of k is in the index and its TTL has not passed
Live(k) == k \in Range(cache) /\ ~(nodes[k].ttl > 0 /\ now > nodes[k].expiry)

\* C11: has never counts as a hit or a miss. For a key that is absent, live
\* or expired has leaves hits and misses as they are; on an expired key it
\* returns false and removes the entry, on a live key it returns true and
\* changes nothing.
C11_HasNeverCounts ==
    [][IsCall("has") =>
         LET k == call'.key
         IN  /\ stats'.hits = stats.hits
             /\ stats'.misses = stats.misses
             /\ Expired(k) =>
                  /\ call'.ret = Bool(FALSE)
                  /\ cache' = Without(cache, k)
                  /\ recencyList(St)' = Without(recencyList(St), k)
                  /\ currentSize' = currentSize - nodes[k].size
             /\ Live(k) =>
                  /\ call'.ret = Bool(TRUE)
                  /\ UNCHANGED <<nodes, cache, head, tail, currentSize, maxSize,
                                 defaultTTL, stats, evictionCallback, pruneIntervalId>>
             /\ k \notin Range(cache) =>
                  /\ call'.ret = Bool(FALSE)
                  /\ UNCHANGED <<nodes, cache, head, tail, currentSize, stats>>]_vars

\* has found its key expired and removed the entry; no miss was counted
C11_Witness ==
    /\ call.op = "has"
    /\ call.key \in Range(call.before)
    /\ call.ret = Bool(FALSE)
    /\ call.key \notin Range(cache)
    /\ stats.misses = 0
    /\ stats.deletes = 1

\* this step is a set that replaces the entry of a key in the index
Replaces == IsCall("set") /\ call'.key \in Range(cache) /\ Inserted

\* the ttl a set uses: its third argument, or defaultTTL when it is left out
TtlOf(c, dflt) == IF c.ttl = Omitted THEN dflt ELSE c.ttl

\* C12: exact replacement. set(key, v2, ttl2) on a key that holds v1 leaves
\* exactly one entry for the key, holding v2 with the expiry computed from
\* ttl2 at the time of the call, as the most recently used; before any
\* eviction currentSize has changed by size(v2) - size(v1) and the number of
\* keys is unchanged.
C12_ExactReplacement ==
    [][Replaces =>
         LET k == call'.key
             ttl == TtlOf(call', defaultTTL)
         IN  /\ Len(SelectSeq(cache', LAMBDA x : x = k)) = 1
             /\ Len(SelectSeq(recencyList(St)', LAMBDA x : x = k)) = 1
             /\ nodes'[k].value = call'.value
             /\ nodes'[k].ttl = ttl
             /\ nodes'[k].expiry = (IF ttl > 0 THEN now + ttl ELSE 0)
             /\ nodes'[k].size = calculateSize(call'.value).size
             /\ head' = k
             /\ lru'[1] = k
             /\ currentSize' + SumBeforeEviction(call'.evLog)
                  = currentSize - nodes[k].size + calculateSize(call'.value).size
             /\ Len(cache') + Len(call'.evLog) = Len(cache)]_vars

\* C13: idempotent delete. delete on a key that is not in the cache returns
\* false and changes neither the entries nor currentSize nor any counter;
\* delete on a present key returns true, removes exactly that entry, takes
\* its size off currentSize and adds 1 to deletes, so a second delete of the
\* same key returns false.
C13_IdempotentDelete ==
    [][IsCall("delete") =>
         LET k == call'.key
         IN  IF k \notin Range(cache)
             THEN /\ call'.ret = Bool(FALSE)
                  /\ UNCHANGED <<nodes, cache, head, tail, currentSize, stats>>
                  /\ getStats(St)' = getStats(St)
             ELSE /\ call'.ret = Bool(TRUE)
                  /\ cache' = Without(cache, k)
                  /\ recencyList(St)' = Without(recencyList(St), k)
                  /\ nodes' = [j \in DOMAIN nodes \ {k} |-> nodes'[j]]
                  /\ \A j \in DOMAIN nodes' :
                       /\ nodes'[j].value = nodes[j].value
                       /\ nodes'[j].size = nodes[j].size
                       /\ nodes'[j].expiry = nodes[j].expiry
                  /\ currentSize' = currentSize - nodes[k].size
                  /\ stats' = [stats EXCEPT !.deletes = @ + 1]
                  /\ delete(St', k).ret = FALSE
                  /\ delete(St', k).stats = stats']_vars

\* one entry was set and removed again, and a delete then returned false
C13_Witness ==
    /\ call.op = "delete"
    /\ call.ret = Bool(FALSE)
    /\ call.before = <<>>
    /\ stats.sets = 1
    /\ stats.deletes = 1
    /\ nOps = 3

\* this step is a sweep: a call of prune, or the timer's callback
IsSweep ==
    \/ IsCall("prune")
    \/ call'.op = "timer" /\ ~call'.threw /\ nOps' = nOps /\ now' = now

\* C14: prune removes every entry that is expired at the time of the sweep
\* and no entry that is not, returns the number of entries it removed and
\* adds exactly that number to expirations; the survivors keep their
\* relative recency order.
C14_PruneSweep ==
    [][IsSweep =>
         /\ cache' = SelectSeq(cache, LAMBDA k : ~Expired(k))
         /\ recencyList(St)' = SelectSeq(recencyList(St), LAMBDA k : ~Expired(k))
         /\ lru' = SelectSeq(lru, LAMBDA k : ~Expired(k))
         /\ \A k \in Range(cache') : nodes'[k].value = nodes[k].value
         /\ call'.ret = Count(Cardinality({k \in Range(cache) : Expired(k)}))
         /\ call'.ret = Count(Len(cache) - Len(cache'))
         /\ stats'.expirations = stats.expirations + call'.ret.count
         /\ currentSize' = SumSizes(nodes, cache')]_vars

\* a sweep removed two expired entries and left a third, which does not expire
C14_Witness ==
    /\ call.op = "prune"
    /\ call.ret = Count(2)
    /\ call.before = <<"a", "b", "c">>
    /\ cache = <<"a">>
    /\ stats.expirations = 2

\* C15: expired entries do not linger. While the prune timer runs, an entry
\* whose TTL has passed is eventually out of the key index, even if no caller
\* touches its key again (the timer is fair; destroy stops it).
C15_ExpiredDoNotLinger ==
    \A k \in Keys : (Expired(k) /\ pruneIntervalId) ~> ~Expired(k)

\* the timer's sweep, not a caller, removed an entry that had expired, and
\* no call had read or tested a key
C15_Witness ==
    /\ call.op = "timer"
    /\ call.ret = Count(1)
    /\ pruneIntervalId
    /\ stats.expirations = 1
    /\ stats.hits + stats.misses = 0
    /\ Len(call.before) = Len(cache) + 1

\* the keys this step made an entry for: the key of a set whose Node was
\* constructed, the keys of a setMany batch whose Nodes were constructed
KeysSet ==
    IF IsCall("set") /\ Inserted THEN {call'.key}
    ELSE IF IsCall("setMany") /\ call'.arg.entries.isObject
    THEN {call'.arg.entries.list[i][1] : i \in {j \in DOMAIN call'.arg.entries.list :
                                    calculateSize(call'.arg.entries.list[j][2]).ok}}
    ELSE {}

\* the keys left, in the order of the Map, whose TTL has not passed
LiveKeys == SelectSeq(cache, LAMBDA k : ~Expired(k))

\* C16: expiry predicate. An entry made at time t with ttl > 0 has expiry
\* t + ttl for as long as it exists, and get, has, values, entries and prune
\* all treat an entry as expired exactly when its ttl > 0 and the time is
\* past t + ttl: an entry with ttl = 0 is never expired, an entry with ttl > 0
\* is live at every time <= t + ttl and expired after it.
C16_ExpiryPredicate ==
    [][(nOps' = nOps + 1 \/ IsSweep) =>
         /\ \A k \in Range(cache') :
              IF k \in KeysSet
              THEN /\ nodes'[k].ttl = TtlOf(call', defaultTTL)
                   /\ nodes'[k].expiry =
                        (IF nodes'[k].ttl > 0 THEN now + nodes'[k].ttl ELSE 0)
              ELSE /\ k \in Range(cache)
                   /\ nodes'[k].ttl = nodes[k].ttl
                   /\ nodes'[k].expiry = nodes[k].expiry
         /\ \A k \in Range(cache) : nodes[k].ttl = 0 => ~Expired(k)
         /\ (call'.op = "get" /\ call'.key \in Range(cache)) =>
              /\ Expired(call'.key) <=> call'.key \notin Range(cache')
              /\ Expired(call'.key) <=> call'.ret = Value(VUndefined)
              /\ ~Expired(call'.key) => call'.ret = Value(nodes[call'.key].value)
         /\ (call'.op = "has" /\ call'.key \in Range(cache)) =>
              /\ Expired(call'.key) <=> call'.key \notin Range(cache')
              /\ call'.ret = Bool(~Expired(call'.key))
         /\ call'.op = "values" =>
              /\ cache' = LiveKeys
              /\ call'.ret = [values |-> [i \in DOMAIN LiveKeys |-> nodes[LiveKeys[i]].value]]
         /\ call'.op = "entries" =>
              /\ cache' = LiveKeys
              /\ call'.ret = [entries |-> [i \in DOMAIN LiveKeys |->
                                             <<LiveKeys[i], nodes[LiveKeys[i]].value>>]]
         /\ IsSweep =>
              /\ cache' = LiveKeys
              /\ call'.ret = Count(Len(cache) - Len(LiveKeys))]_vars

\* values met one entry past its expiry time and one exactly at it: the
\* first was dropped, the second returned
C16_Witness ==
    /\ call.op = "values"
    /\ Len(call.before) = Len(cache) + 1
    /\ \E k \in Range(cache) : nodes[k].ttl > 0 /\ nodes[k].expiry = now
    /\ Len(call.ret.values) >= 1

\* key matches the pattern: the regular expression accepts it
Matches(pattern, key) == key \in compileRegExp(pattern.source, pattern.flags).accepts

\* C17: deletePattern deletes every key that matches the pattern and no key
\* that does not, and returns the number of keys deleted; the entries that
\* do not match keep their values, sizes and relative recency order.
C17_DeletePattern ==
    [][(IsCall("deletePattern") /\ ~call'.threw) =>
         LET pattern == call'.arg.pattern
             rest == SelectSeq(cache, LAMBDA k : ~Matches(pattern, k))
         IN  /\ cache' = rest
             /\ recencyList(St)' = SelectSeq(recencyList(St), LAMBDA k : ~Matches(pattern, k))
             /\ call'.ret = Count(Len(cache) - Len(rest))
             /\ \A k \in Range(cache') :
                  /\ nodes'[k].value = nodes[k].value
                  /\ nodes'[k].size = nodes[k].size
             /\ currentSize' = SumSizes(nodes, rest)]_vars

\* this step removes the entry of k, or finds no entry of k and makes none
RemovedOrAbsent(k) ==
    \/ call'.op \in {"delete", "get", "has"} /\ call'.key = k
         /\ (k \notin Range(cache) \/ call'.op = "delete" \/ Expired(k))
    \/ call'.op \in {"values", "entries", "prune", "timer"} /\ Expired(k)
    \/ k \in Range(call'.evLog) /\ (call'.op = "setMany" => k \notin KeysSet)
    \/ k \notin Range(cache) /\ k \notin KeysSet

\* the value the set or setMany of this step hands over for key k
ValueSet(k) ==
    IF call'.op = "set" THEN call'.value
    ELSE LET list == call'.arg.entries.list
         IN  list[CHOOSE i \in DOMAIN list : list[i][1] = k][2]

\* C18: no resurrection. Once the entry of a key is removed (by delete, lazy
\* expiry, prune or eviction) the key is out of index and list, get reports
\* it absent and has false, and it stays so over every step that is not a
\* set of the key; the set that brings the key back makes an entry whose
\* value, size and expiry come from that call alone.
C18_NoResurrection ==
    [][(nOps' = nOps + 1 \/ IsSweep) =>
         /\ \A k \in Keys : RemovedOrAbsent(k) =>
              /\ k \notin Range(cache')
              /\ k \notin Range(recencyList(St)')
              /\ k \notin DOMAIN nodes'
              /\ get(St', k).ret = VUndefined
              /\ has(St', k).ret = FALSE
         /\ \A k \in KeysSet \cap Range(cache') :
              /\ nodes'[k].value = ValueSet(k)
              /\ nodes'[k].size = calculateSize(ValueSet(k)).size
              /\ nodes'[k].ttl = TtlOf(call', defaultTTL)
              /\ nodes'[k].expiry = (IF nodes'[k].ttl > 0 THEN now + nodes'[k].ttl ELSE 0)
              /\ nodes'[k].prev = Null
                   \/ nodes'[k].prev \in KeysSet]_vars

\* the only entry expired and was removed, and a later set made an entry
\* that has no expiry and the size of its own value
C18_Witness ==
    /\ call.op = "set"
    /\ call.before = <<>>
    /\ stats.expirations = 1
    /\ stats.sets = 2
    /\ now = 2
    /\ cache = <<call.key>>
    /\ nodes[call.key].expiry = 0
    /\ nodes[call.key].size = 0

\* C19: clear removes every entry, sets currentSize to 0 and head and tail to
\* null, and leaves the six counters, maxSize and defaultTTL as they are.
C19_Clear ==
    [][IsCall("clear") =>
         /\ keys(St)' = <<>>
         /\ recencyList(St)' = <<>>
         /\ nodes' = <<>>
         /\ currentSize' = 0
         /\ head' = Null
         /\ tail' = Null
         /\ stats' = stats
         /\ maxSize' = maxSize
         /\ defaultTTL' = defaultTTL
         /\ getStats(St)' = [getStats(St) EXCEPT !.size = 0, !.currentSize = 0]
         /\ UNCHANGED <<evictionCallback, pruneIntervalId>>]_vars

\* clear dropped two entries after two sets had been counted
C19_Witness ==
    /\ call.op = "clear"
    /\ Len(call.before) = 2
    /\ cache = <<>>
    /\ stats.sets = 2
    /\ maxSize = 4

Counters == {"hits", "misses", "sets", "deletes", "evictions", "expirations"}

\* C20: monotonic statistics. None of the counters hits, misses, sets,
\* deletes, evictions and expirations decreases on any step, clear and
\* destroy included, and getStats reports the counters as they are.
C20_MonotonicStats ==
    [][/\ DOMAIN stats' = Counters
       /\ \A c \in Counters :
            /\ stats'[c] >= stats[c]
            /\ getStats(St)'[c] = stats'[c]
            /\ getStats(St)'[c] >= getStats(St)[c]]_vars

\* destroy was called after three sets and an eviction had been counted
C20_Witness ==
    /\ call.op = "destroy"
    /\ stats.sets = 3
    /\ stats.evictions = 1
    /\ Len(call.before) = 2
    /\ cache = <<>>
    /\ ~pruneIntervalId

\* C21: eviction loop termination. Every eviction loop that set or setMaxSize
\* starts ends: the call returns, having removed each entry at most once and
\* at most as many entries as the cache held when the loop started; the loop
\* stops as soon as currentSize <= maxSize or the list is empty, also when a
\* single entry is larger than maxSize.
C21_EvictionTerminates ==
    [][(IsCall("set") \/ IsCall("setMaxSize")) =>
         /\ ~call'.threw
         /\ NoDuplicates(call'.evLog)
         /\ Len(call'.evLog) <= Len(OrderBeforeEviction)
         /\ Range(call'.evLog) \subseteq Range(OrderBeforeEviction)
         /\ Len(cache') = Len(OrderBeforeEviction) - Len(call'.evLog)
         /\ currentSize' <= maxSize' \/ cache' = <<>>
         /\ call'.evLog # <<>> =>
              currentSize' + SizeBeforeEviction(call'.evLog[Len(call'.evLog)]) > maxSize']_vars

\* a set of an entry larger than maxSize evicted the entry that was there
\* and then its own, and returned with the cache empty
C21_Witness ==
    /\ call.op = "set"
    /\ Len(call.evLog) = 2
    /\ call.evLog[2] = call.key
    /\ cache = <<>>
    /\ maxSize = 2
    /\ currentSize = 0

WriteOps ==
    {"set", "setMany", "delete", "deleteMany", "deletePattern", "clear", "prune",
     "setMaxSize", "destroy"}

\* C22: no write operation lets an exception reach its caller. set, setMany,
\* delete, deleteMany, deletePattern, clear, prune, setMaxSize and destroy
\* return normally whatever they are handed: a value whose size cannot be
\* computed, an observer that throws, a pattern string that is no regular
\* expression.
C22_WritesDoNotThrow ==
    call.op \in WriteOps => ~call.threw

\* C23: timer fault isolation. An exception raised inside one periodic sweep
\* does not stop the recurring timer: after it the interval is still armed
\* and the sweeps that follow still run.
C23_TimerFaultIsolation ==
    [][(call'.op = "timer" /\ call'.threw) =>
         /\ pruneIntervalId'
         /\ ~exited']_vars

\* C24: destroy stops the prune timer and empties the cache, and is
\* idempotent. After destroy returns the interval is cleared and stays so: no
\* sweep of the timer runs any more; a second destroy returns normally and
\* leaves the state exactly as the first left it.
C24_Destroy ==
    [][/\ IsCall("destroy") =>
            /\ ~call'.threw
            /\ ~pruneIntervalId'
            /\ cache' = <<>> /\ nodes' = <<>>
            /\ head' = Null /\ tail' = Null
            /\ currentSize' = 0
            /\ UNCHANGED <<stats, maxSize, defaultTTL, evictionCallback>>
            /\ destroy(St') = St'
       /\ ~pruneIntervalId =>
            /\ ~pruneIntervalId'
            /\ nOps' = nOps => UNCHANGED <<nodes, cache, head, tail, currentSize, stats>>]_vars

\* destroy emptied a cache of two entries and cleared the interval
C24_Witness ==
    /\ call.op = "destroy"
    /\ Len(call.before) = 2
    /\ cache = <<>>
    /\ ~pruneIntervalId
    /\ ~exited
    /\ stats.sets = 2

\* this step is a sweep the timer started, and the sweep returned
IsTimerSweep == call'.op = "timer" /\ ~call'.threw /\ nOps' = nOps /\ now' = now

\* C25: run-to-completion pruning. A sweep of the timer is a step of its
\* own between two public calls, at any place in any sequence of calls: the
\* size and existence invariants hold after every step, and a sweep removes
\* only entries that are expired at the moment it runs and changes nothing
\* else.
C25_RunToCompletionPruning ==
    [][/\ C1_SizeInvariant'
       /\ C2_ExistenceInvariant'
       /\ IsTimerSweep =>
            /\ \A k \in Range(cache) \ Range(cache') : Expired(k)
            /\ cache' = SelectSeq(cache, LAMBDA k : k \in Range(cache'))
            /\ recencyList(St)' = SelectSeq(recencyList(St), LAMBDA k : k \in Range(cache'))
            /\ \A k \in Range(cache') : nodes'[k].value = nodes[k].value
            /\ UNCHANGED <<maxSize, defaultTTL, evictionCallback, pruneIntervalId>>
            /\ stats'.hits = stats.hits /\ stats'.misses = stats.misses
            /\ stats'.sets = stats.sets /\ stats'.evictions = stats.evictions]_vars

\* the timer's sweep removed an expired entry between two sets
C25_Witness ==
    /\ call.op = "set"
    /\ nOps = 2
    /\ stats.expirations = 1
    /\ stats.sets = 2
    /\ Len(cache) = 1
    /\ Len(call.before) = 0

\* C26: values and entries return exactly the entries that are not expired
\* at the time of the call, remove every expired entry they meet, and change
\* neither hits and misses nor the recency order of the entries that stay.
C26_ValuesEntries ==
    [][(IsCall("values") \/ IsCall("entries")) =>
         /\ ~call'.threw
         /\ call'.op = "values" =>
              call'.ret = [values |-> [i \in DOMAIN LiveKeys |-> nodes[LiveKeys[i]].value]]
         /\ call'.op = "entries" =>
              call'.ret = [entries |-> [i \in DOMAIN LiveKeys |->
                                          <<LiveKeys[i], nodes[LiveKeys[i]].value>>]]
         /\ cache' = LiveKeys
         /\ \A k \in Range(cache) : Expired(k) => k \notin DOMAIN nodes'
         /\ recencyList(St)' = SelectSeq(recencyList(St), LAMBDA k : ~Expired(k))
         /\ lru' = SelectSeq(lru, LAMBDA k : ~Expired(k))
         /\ stats'.hits = stats.hits
         /\ stats'.misses = stats.misses
         /\ currentSize' = SumSizes(nodes, LiveKeys)]_vars

\* entries met three entries, dropped the expired one and returned the two
\* others, which keep their order
C26_Witness ==
    /\ call.op = "entries"
    /\ Len(call.before) = 3
    /\ Len(call.ret.entries) = 2
    /\ Len(cache) = 2
    /\ head = cache[2]
    /\ stats.hits + stats.misses = 0

\* C27: setDefaultTTL changes only the TTL of later sets that leave ttl out.
\* The entries in the cache keep their ttl and expiry; a later set with an
\* explicit ttl, 0 included, uses that ttl, and one without uses the default
\* of the time of the set.
C27_SetDefaultTTL ==
    [][/\ IsCall("setDefaultTTL") =>
            /\ defaultTTL' = call'.ttl
            /\ ~call'.threw
            /\ UNCHANGED <<nodes, cache, head, tail, currentSize, maxSize, stats,
                           evictionCallback, pruneIntervalId, lru>>
       /\ (IsCall("set") /\ call'.key \in Range(cache')) =>
            /\ call'.ttl # Omitted =>
                 /\ nodes'[call'.key].ttl = call'.ttl
                 /\ nodes'[call'.key].expiry =
                      (IF call'.ttl > 0 THEN now + call'.ttl ELSE 0)
            /\ call'.ttl = Omitted =>
                 /\ nodes'[call'.key].ttl = defaultTTL
                 /\ nodes'[call'.key].expiry =
                      (IF defaultTTL > 0 THEN now + defaultTTL ELSE 0)
            /\ defaultTTL' = defaultTTL]_vars

\* after setDefaultTTL(1) a set without ttl made an entry with TTL 1, next to
\* an entry made before with the default of that time
C27_Witness ==
    /\ call.op = "set"
    /\ call.ttl = Omitted
    /\ defaultTTL = 1
    /\ nodes[call.key].ttl = 1
    /\ \E k \in Range(cache) : nodes[k].ttl = DefaultTTL

RECURSIVE GetLoop(_, _, _)
\* the state after get has been called on ks[i], ks[i+1], ... one by one
GetLoop(s, ks, i) ==
    IF i > Len(ks) THEN s ELSE GetLoop(get(s, ks[i]), ks, i + 1)

RECURSIVE DeleteLoop(_, _, _)
\* the state after delete has been called on ks[i], ks[i+1], ... one by one
DeleteLoop(s, ks, i) ==
    IF i > Len(ks) THEN s ELSE DeleteLoop(delete(s, ks[i]), ks, i + 1)

\* what the i-th call of the loop returns
GetLoopRet(s, ks, i) == get(GetLoop(s, SubSeq(ks, 1, i - 1), 1), ks[i]).ret
DeleteLoopRet(s, ks, i) == delete(DeleteLoop(s, SubSeq(ks, 1, i - 1), 1), ks[i]).ret

\* the step left the cache as the state record s has it
LeavesAs(s) ==
    /\ cache' = s.cache
    /\ nodes' = [k \in Range(s.cache) |-> s.nodes[k]]
    /\ head' = s.head
    /\ tail' = s.tail
    /\ currentSize' = s.currentSize
    /\ stats' = s.stats
    /\ lru' = s.lru
    /\ maxSize' = s.maxSize
    /\ defaultTTL' = s.defaultTTL

\* C28: the bulk wrappers equal their single-key loops. getMany(keys) and
\* deleteMany(keys) leave the cache, the recency order and the counters as
\* get, or delete, called on each key in the given order does; getMany
\* returns exactly the keys whose get is not absent, with their values, and
\* deleteMany the number of keys whose delete returned true.
C28_BulkWrappers ==
    [][/\ IsCall("getMany") =>
            LET ks == call'.arg.keys
            IN  /\ LeavesAs(GetLoop(St, ks, 1))
                /\ Range(call'.ret.object) =
                     {<<ks[i], GetLoopRet(St, ks, i)>> :
                        i \in {j \in DOMAIN ks : GetLoopRet(St, ks, j) # VUndefined}}
                /\ NoDuplicates([i \in DOMAIN call'.ret.object |-> call'.ret.object[i][1]])
       /\ IsCall("deleteMany") =>
            LET ks == call'.arg.keys
            IN  /\ LeavesAs(DeleteLoop(St, ks, 1))
                /\ call'.ret =
                     Count(Cardinality({i \in DOMAIN ks : DeleteLoopRet(St, ks, i)}))]_vars

\* getMany read a key that was there and a key that was not: one hit, one
\* miss at least, the key read is the most recently used of two
C28_Witness ==
    /\ call.op = "getMany"
    /\ Len(call.ret.object) = 1
    /\ stats.hits >= 1
    /\ stats.misses >= 1
    /\ Len(cache) = 2
    /\ head = call.ret.object[1][1]
    /\ head = cache[1]

\* the prefixes clearCache is to clear for the type it is called with
PrefixesOf(type) ==
    CASE type = "location" -> {LOCATION_CACHE_PREFIX}
      [] type = "config" -> {REGION_CONFIG_CACHE_PREFIX, COUNTRY_CONFIG_CACHE_PREFIX}
      [] type \in {"all", Undefined} -> CachePrefixes
      [] OTHER -> {}

\* the recency list from this.head on, however many keys the cache holds
WholeList(s) == walkNext(s.nodes, s.head, Len(s.cache) + 1)

\* key stands under one of the prefixes
Under(prefixes, key) == \E p \in prefixes : startsWith(key, p)

\* C29: clearCache(type) of the geolocation service removes from the shared
\* cache exactly the keys under the prefixes of the type ('location': the
\* location prefix, 'config': the two configuration prefixes, 'all' or no
\* argument: all three), leaves every other key in place with its entry, and
\* returns the number of entries removed.
C29_ClearCache ==
    [][(IsCall("clearCache") /\ call'.arg.type \in {"location", "config", "all", Undefined}) =>
         LET prefixes == PrefixesOf(call'.arg.type)
             kept == SelectSeq(cache, LAMBDA k : ~Under(prefixes, k))
         IN  /\ ~call'.threw
             /\ cache' = kept
             /\ \A k \in Range(kept) :
                  /\ nodes'[k].value = nodes[k].value
                  /\ nodes'[k].ttl = nodes[k].ttl
                  /\ nodes'[k].expiry = nodes[k].expiry
                  /\ nodes'[k].size = nodes[k].size
             /\ WholeList(St)' = SelectSeq(WholeList(St), LAMBDA k : ~Under(prefixes, k))
             /\ call'.ret = Count(Len(cache) - Len(kept))]_vars

\* clearCache('config') found a location, a region configuration and a
\* country configuration in the cache, removed the two configurations and
\* returned 2; the location is still there
C29_Witness ==
    /\ call.op = "clearCache"
    /\ call.arg.type = "config"
    /\ call.ret = Count(2)
    /\ Len(call.before) = 3
    /\ \E k \in Range(call.before) : startsWith(k, REGION_CONFIG_CACHE_PREFIX)
    /\ \E k \in Range(call.before) : startsWith(k, COUNTRY_CONFIG_CACHE_PREFIX)
    /\ Len(cache) = 1
    /\ startsWith(cache[1], LOCATION_CACHE_PREFIX)

\* the cache holds an entry for key that has not expired
Holds(key) == key \in Range(cache) /\ ~(nodes[key].ttl > 0 /\ now > nodes[key].expiry)

\* the cache key of the location of ip
LocationKey(ip) == LOCATION_CACHE_PREFIX \o normalizeIpAddress(ip)

\* the step leaves the entries and the counters of the cache alone
CacheUntouched == UNCHANGED <<nodes, cache, head, tail, currentSize, stats, lru>>

\* C30: cache-aside lookup in getLocationFromIp. For a valid IP, if the cache
\* holds a location under the key of the normalized IP, it is returned and
\* the GeoIP lookup is not called; otherwise the lookup is called, with the
\* normalized IP, and when it has answered its enhanced result is stored
\* under that key with the TTL of one hour if it is not null, and nothing is
\* stored if it is null. For an invalid IP neither the cache nor the lookup
\* is touched and null is returned.
C30_CacheAside ==
    [][/\ IsCall("getLocationFromIp") =>
            LET ip == call'.arg.ip
            IN  IF ~isValidIpAddress(ip)
                THEN /\ CacheUntouched
                     /\ inflight' = inflight
                     /\ call'.ret = Value(VNull)
                ELSE IF Holds(LocationKey(ip))
                     THEN /\ call'.ret = Value(nodes[LocationKey(ip)].value)
                          /\ inflight' = inflight
                          /\ cache' = cache
                     ELSE /\ call'.ret = Pending
                          /\ inflight' = Append(inflight,
                                                Awaiting("location", LocationKey(ip),
                                                         normalizeIpAddress(ip), "", Null))
                          /\ LocationKey(ip) \notin Range(cache')
       /\ (call'.op = "getLocationByIp" /\ Len(inflight') < Len(inflight)) =>
            LET key == call'.key
            IN  IF call'.arg.lookup = "found"
                THEN /\ call'.ret.value \in
                          {enhanceLocationData(locationData(call'.arg.ip), c) :
                             c \in CountryOutcomes}
                     /\ key = LOCATION_CACHE_PREFIX \o call'.arg.ip
                     /\ key \in Range(cache')
                     /\ nodes'[key].value = call'.ret.value
                     /\ nodes'[key].ttl = LOCATION_CACHE_TTL
                     /\ nodes'[key].expiry = now + LOCATION_CACHE_TTL
                ELSE /\ call'.ret = Value(VNull)
                     /\ CacheUntouched]_vars

\* the location of 10.0.0.1 was looked up and stored; a call with the same
\* address written with leading zeros has now been answered from the cache,
\* and no lookup is awaited
C30_Witness ==
    /\ call.op = "getLocationFromIp"
    /\ call.arg.ip = "010.00.0.01"
    /\ call.key = LOCATION_CACHE_PREFIX \o "10.0.0.1"
    /\ call.key \in Range(cache)
    /\ call.ret = Value(nodes[call.key].value)
    /\ nodes[call.key].ttl = LOCATION_CACHE_TTL
    /\ stats.hits = 1
    /\ inflight = <<>>

\* the timestamps of the entries of the Map
Timestamps(c) == {c[i].timestamp : i \in DOMAIN c}

RECURSIVE CountAt(_, _)
\* the number of entries of the Map with timestamp t
CountAt(c, t) ==
    IF c = <<>> THEN 0
    ELSE (IF Head(c).timestamp = t THEN Head(c).count ELSE 0) + CountAt(Tail(c), t)

\* the timestamps of which the step removed an entry although they can still
\* be answered from the Map
RemovedFresh ==
    {t \in Timestamps(geoipCache) :
       /\ now < t + CACHE_TTL
       /\ CountAt(geoipCache', t) < CountAt(geoipCache, t)}

\* C31: the lookup cache of the GeoIP service holds at most CACHE_MAX_SIZE
\* entries after any sequence of getLocationByIp calls, and a cleanup that
\* finds the Map over the maximum removes the entries with the oldest
\* timestamps until the size equals the maximum.
C31_GeoipCacheBounded ==
    [][/\ mapSize(geoipCache') <= CACHE_MAX_SIZE
       /\ RemovedFresh # {} =>
            /\ mapSize(geoipCache') = CACHE_MAX_SIZE
            /\ \A t \in RemovedFresh, u \in Timestamps(geoipCache') : t <= u]_vars

\* the cleanup part of C31 alone: whenever entries that have not expired are
\* removed, they are the oldest and the size comes to the maximum
C31_CleanupTrims ==
    [][RemovedFresh # {} =>
         /\ mapSize(geoipCache') = CACHE_MAX_SIZE
         /\ \A t \in RemovedFresh, u \in Timestamps(geoipCache') : t <= u]_vars

\* the size of the Map is a multiple of 100 whenever it is above the maximum
\* by a hundred: it never passes CACHE_MAX_SIZE + 100
C31_SizeAtMost1100 == mapSize(geoipCache) < CACHE_MAX_SIZE + 100

RECURSIVE walkPrev(_, _, _)
\* the keys met from Node k along .prev, at most fuel of them
walkPrev(ns, k, fuel) ==
    IF k = Null \/ fuel = 0 \/ k \notin DOMAIN ns THEN <<>>
    ELSE <<k>> \o walkPrev(ns, ns[k].prev, fuel - 1)

\* the sequence read from its end
Reverse(seq) == [i \in DOMAIN seq |-> seq[Len(seq) + 1 - i]]

\* the last call took entries out one by one (clear and destroy drop the
\* whole list at once, and so does the exit of the process)
RemovesOneByOne == call.op \notin {"clear", "destroy"} /\ ~exited

NonEvictingOps ==
    {"get", "has", "delete", "deleteMany", "deletePattern", "getMany", "keys",
     "values", "entries", "prune", "timer", "clear", "destroy", "getStats",
     "resetStats", "setDefaultTTL", "onEviction"}

\* the keys the observer was handed during the call, in order
ObservedKeys(c) == [i \in DOMAIN c.cbLog |-> c.cbLog[i][1]]

\* C33: single observer, evictions only. onEviction(f) makes f the one
\* observer (and no observer when f is not a function); every invocation
\* during a call is made to the observer registered when the call began; the
\* observer is invoked only for entries the capacity eviction loop removed,
\* at most once for each, and never during delete, deletePattern, lazy expiry,
\* prune or clear; an entry replaced inside set is not reported (a report
\* with the key of the set carries the new value, evicted after it was put).
C33_SingleObserver ==
    [][ /\ IsCall("onEviction") =>
             /\ evictionCallback' = IF call'.arg.callback \in Callbacks
                                    THEN call'.arg.callback ELSE Null
             /\ call'.cbLog = <<>>
        /\ nOps' # nOps \/ call' # call =>
             /\ \A i \in DOMAIN call'.cbBy : call'.cbBy[i] = evictionCallback
             /\ Len(call'.cbBy) = Len(call'.cbLog)
             /\ Len(call'.cbLog) <= Len(call'.evLog)
             /\ \A i \in DOMAIN call'.cbLog : ObservedKeys(call')[i] = call'.evLog[i]
             /\ call'.op \in NonEvictingOps => call'.cbLog = <<>> /\ call'.evLog = <<>>
             /\ call'.op = "set" =>
                  \A i \in DOMAIN call'.cbLog :
                     call'.cbLog[i][1] = call'.key => call'.cbLog[i][2] = call'.value
             /\ (Range(call'.before) \ (Range(cache') \cup Range(call'.evLog)))
                  \cap Range(ObservedKeys(call')) = {} ]_vars

\* a set that replaced one entry and evicted another told the registered
\* observer of the evicted one only
C33_Witness ==
    /\ call.op = "set"
    /\ call.cbBy = <<"ok">>
    /\ evictionCallback = "ok"
    /\ call.key \in Range(call.before)
    /\ call.key \in Range(cache)
    /\ Len(call.evLog) = 1
    /\ call.evLog[1] # call.key

\* the outermost call of this step returned after its eviction loop had called
\* an observer that calls back into the cache
ObserverReentered ==
    /\ nOps' = nOps + 1
    /\ evictionCallback \in ReentrantCallbacks
    /\ call'.cbLog # <<>>

\* C34: re-entrant observer. When the eviction observer calls set, get,
\* delete or clear on the same cache while an eviction loop is running, then
\* at the return of the outermost call the size invariant and the existence
\* invariant hold, currentSize <= maxSize, and every eviction was counted
\* once and reported once: the evictions counter grew by the number of nodes
\* the loops unlinked, the observer was called once for each of them, in
\* order, and (unless the observer cleared the cache) the number of entries
\* is the one before plus the sets minus the deletes and the evictions made.
C34_ReentrantObserver ==
    [][ObserverReentered =>
         /\ currentSize' = SumSizes(nodes', cache')
         /\ Range(walkNext(nodes', head', Len(cache') + 1)) = Range(cache')
         /\ Len(walkNext(nodes', head', Len(cache') + 1)) = Len(cache')
         /\ NoDuplicates(cache')
         /\ (head' = Null) <=> (cache' = <<>>)
         /\ (tail' = Null) <=> (cache' = <<>>)
         /\ currentSize' <= maxSize'
         /\ stats'.evictions = stats.evictions + Len(call'.evLog)
         /\ Len(call'.cbLog) = Len(call'.evLog)
         /\ \A i \in DOMAIN call'.cbLog : call'.cbLog[i][1] = call'.evLog[i]
         /\ evictionCallback # "reClear" =>
              Len(cache') = Len(cache) + (stats'.sets - stats.sets)
                              - (stats'.deletes - stats.deletes)
                              - (stats'.evictions - stats.evictions)]_vars

\* a set evicted an entry, the observer put it back with a set of its own,
\* and that set evicted two more, the entry of the outer set among them
C34_Witness ==
    /\ call.op = "set"
    /\ evictionCallback = "reSet"
    /\ Len(call.evLog) = 3
    /\ call.evLog[3] = call.key
    /\ cache = <<call.evLog[1]>>
    /\ stats.sets = 4
    /\ stats.evictions = 3

\* the observer deleted an entry that the loop would have evicted next
C34_WitnessDelete ==
    /\ call.op = "set"
    /\ evictionCallback = "reDelete"
    /\ call.evLog = <<"a">>
    /\ stats.deletes = 1
    /\ "b" \in Range(call.before)
    /\ "b" \notin Range(cache)

\* C35: entry conservation. In every state reached without a call of clear
\* or destroy the number of entries in the cache is sets - deletes -
\* evictions.
C35_EntryConservation ==
    Len(cache) = stats.sets - stats.deletes - stats.evictions

\* a set replaced one entry and evicted another: all three counters have
\* moved and one entry is left
C35_Witness ==
    /\ call.op = "set"
    /\ call.key \in Range(call.before)
    /\ stats.sets = 3
    /\ stats.deletes = 1
    /\ stats.evictions = 1
    /\ Len(cache) = 1

\* an entry found expired by has was taken out and counted as a delete
C35_WitnessExpiry ==
    /\ call.op = "has"
    /\ call.ret = Bool(FALSE)
    /\ call.key \in Range(call.before)
    /\ stats.deletes = 1
    /\ stats.sets = 1
    /\ Len(cache) = 0

\* the calls that look for entries whose TTL has passed
ExpiryOps == {"get", "getMany", "has", "values", "entries", "prune", "timer"}

\* the entries this step took out because their TTL had passed
RemovedForExpiry ==
    IF call'.op \in ExpiryOps
    THEN {k \in Range(cache) \ Range(cache') : isExpired(nodes[k], now)}
    ELSE {}

\* C36: every removal of an entry because its TTL has passed, whether it is
\* found by get, has, values, entries or prune, increments the expirations
\* counter by exactly one: in every step the counter grows by the number of
\* entries removed for expiry.
C36_ExpirationsCounted ==
    [][stats'.expirations = stats.expirations + Cardinality(RemovedForExpiry)]_vars

\* the part of C36 that holds: get, getMany, prune and the prune timer count
\* each entry they remove for expiry, and nothing else moves the counter
C36_GetAndPruneCount ==
    [][ /\ call'.op \in {"get", "getMany", "prune", "timer"} =>
             stats'.expirations = stats.expirations + Cardinality(RemovedForExpiry)
        /\ call'.op \notin {"get", "getMany", "prune", "timer"} =>
             stats'.expirations = stats.expirations ]_vars

\* the explicit deletions
DeleteOps == {"delete", "deleteMany", "deletePattern"}

\* C37: the deletes counter counts explicit deletions only: it grows by one
\* for each entry removed by delete, deleteMany or deletePattern, and is left
\* as it is when an entry is removed by lazy expiry, by prune, by capacity
\* eviction or by replacement inside set.
C37_DeletesExplicitOnly ==
    [][stats'.deletes = stats.deletes +
         (IF call'.op \in DeleteOps
          THEN Cardinality(Range(cache) \ Range(cache')) ELSE 0)]_vars

\* the part of C37 that holds: explicit deletions are counted once each, and
\* capacity eviction and clear leave the counter as it is
C37_ExplicitAndEvictions ==
    [][ /\ call'.op \in DeleteOps =>
             stats'.deletes = stats.deletes + Cardinality(Range(cache) \ Range(cache'))
        /\ call'.op \in {"setMaxSize", "clear", "destroy"} =>
             stats'.deletes = stats.deletes ]_vars

\* the location in a body sent with status 200
LocationIn(data) == data.items[2].items[1]

\* the locations the lookup can give for the address of the client that
\* makes the request
OwnLocations(req) ==
    {enhanceLocationData(locationData(normalizeIpAddress(parseIpFromRequest(req))), country) :
       country \in CountryOutcomes}

\* the last step answered a request to the route, made without an ip
\* parameter, with a location
LocationReturned ==
    /\ call.op = "detect"
    /\ call.ret # Pending
    /\ call.ret.status = 200
    /\ call.arg.req.queryIp = ""

\* C38: per-client location detection. The location returned by
\* GET /api/geolocation/detect is the override of the requesting client's
\* session when it has one, and otherwise a location looked up for that
\* client's own address: it does not depend on what other clients asked
\* before.
C38_PerClientDetection ==
    LocationReturned =>
        IF truthy(call.arg.req.override)
        THEN LocationIn(call.ret.data) = call.arg.req.override
        ELSE LocationIn(call.ret.data) \in OwnLocations(call.arg.req)

\* the part of C38 that holds: a response that did not come out of the route
\* cache carries the client's own location or override
C38_MissesArePerClient ==
    LocationReturned /\ call.ret.xcache # "HIT" =>
        IF truthy(call.arg.req.override)
        THEN LocationIn(call.ret.data) = call.arg.req.override
        ELSE LocationIn(call.ret.data) \in OwnLocations(call.arg.req)


\* the client at 2001:db8::1 was answered out of the route cache with the
\* location of the client at 10.0.0.1
C38_OtherClientsLocation ==
    /\ LocationReturned
    /\ call.ret.xcache = "HIT"
    /\ call.arg.req.remote = "2001:db8::1"
    /\ call.arg.req.xff = ""
    /\ ~truthy(call.arg.req.override)
    /\ LocationIn(call.ret.data) = locationData("10.0.0.1")

\* this step is the answer of comparePassword to a call of authenticate
PasswordChecked == call'.op = "comparePassword" /\ logins' # logins

\* C39: login lockout. In any interleaving of authenticate calls on the
\* account, at most 5 failed password checks are made before the account is
\* locked (counted from the last successful login or the last restart after
\* a lock that is over); while the account is locked no password is checked;
\* and a successful login leaves loginAttempts at 0 and no lock.
C39_LoginLockout ==
    [][PasswordChecked =>
         /\ authLog'.failedChecks <= MAX_LOGIN_ATTEMPTS
         /\ authLog'.failedChecks >= MAX_LOGIN_ATTEMPTS => isLocked(user', now')
         /\ ~isLocked(user, now)
         /\ call'.ret.outcome = "ok" => user'.loginAttempts = 0 /\ user'.lockUntil = 0]_vars

\* six wrong passwords were checked and the account is not locked
C39_SixChecksNoLock ==
    /\ authLog.failedChecks = 6
    /\ user.loginAttempts = 6
    /\ user.lockUntil = 0

\* this step is the return of a call of refreshToken with new tokens
Refreshed ==
    /\ call'.op = "refreshToken"
    /\ call'.ret.outcome = "ok"
    /\ refreshes' # refreshes

\* C40: single-use refresh tokens. Among the calls of refreshToken that
\* present the same token, one after the other or at the same time, at most
\* one returns new tokens; when it does, the stored token is revoked and its
\* replacedByToken is the new refresh token.
C40_SingleUseRefresh ==
    [][Refreshed =>
         /\ CopiesIn(call'.arg.token, authLog'.used) <= 1
         /\ tokens'[call'.arg.token].revoked
         /\ tokens'[call'.arg.token].replacedByToken = call'.ret.refreshToken]_vars

\* the part of C40 that holds: a call that reads the stored token after a
\* call with the same token has returned is rejected
C40_LaterCallsFail ==
    [][\A p \in BagToSet(refreshes) :
         (/\ p.phase = "find"
          /\ CopiesIn(p, refreshes') < CopiesIn(p, refreshes)
          /\ BagIn(p.token, authLog.used))
         => /\ call'.ret.outcome = "invalid"
            /\ BagCardinality(refreshes') < BagCardinality(refreshes)]_vars

\* one token was exchanged twice
C40_UsedTwice == \E token \in DOMAIN tokens : CopiesIn(token, authLog.used) = 2

=============================================================================
